---- MODULE Spec2Model ----
(***************************************************************************)
(* The page cache of soupdb (src/src/io/cache.rs): the channel-based       *)
(* PageTable with its LRU, reference counters, release channels and        *)
(* per-page pending queues, and WorkingMemory::get_page on top of it.      *)
(*                                                                         *)
(* One PageTable object is modelled, under two specifications:            *)
(*   SpecTable:  the table is driven through the public API of PageTable   *)
(*               (request_lock, tick, contains_page);                      *)
(*   SpecMemory: the table is the one inside a WorkingMemory, driven by    *)
(*               get_page, which takes read locks straight from            *)
(*               page_index (as the tests' check_page_index does: tick     *)
(*               followed by page_index(id, Read)), with tick and          *)
(*               contains_page as the tests call them.                     *)
(* In both, callers drop the locks they hold at any time; a drop posts the *)
(* page id on the release channel of the lock's kind.                      *)
(***************************************************************************)
EXTENDS Integers, Sequences, FiniteSets, Bags, TLC

\* ---------------------------------------------------------------- bounds

PAGE_SIZE == 8192
\* capacity in pages of the table driven through request_lock
TableSlots == 2
\* capacity in pages of the WorkingMemory (the tests construct PAGE_SIZE * 3)
MemorySlots == 3
\* locks alive plus requests queued: at most the capacity plus ExtraLocks
ExtraLocks == 1
\* reply channels a caller may pass to request_lock
NumChannels == 1
\* queued requests whose caller dropped the receiver of the reply channel
MaxClosed == 1
\* the pages such callers ask for are 0 .. MaxClosedPageId
MaxClosedPageId == 1
\* paths of database files
NumPaths == 2
\* the page ids in the DbMetadata of the files that are there at the start
MaxPageId == 2
\* the size of a sized string and of a vector in the schemas drawn
MaxSize == 12
\* how deep nullable and vector nest in the value types drawn
TypeDepth == 2
\* columns of a table, geohash or timeseries schema
MaxEntries == 2
\* a string size below the inline maximum, and one above it
InlineSize == 27
LongSize == 300
\* the element count of the vectors whose size is taken
VectorLen == 4
\* columns of the node schema and of the edge schema of a graph
MaxGraphEntries == 1
\* tokens of the expressions handed to shunting_yard
MaxTokens == 7

Channels == 1 .. NumChannels
\* a reply channel whose receiver was dropped
ClosedChannel == NumChannels + 1
LockTypes == {"Read", "Write"}

\* ------------------------------------------------- Option and HashMap

None == << >>
Some(x) == << x >>
IsSome(o) == o # << >>
Unwrap(o) == o[1]

EmptyMap == [k \in {} |-> 0]
MapPut(m, k, v) == [x \in (DOMAIN m) \cup {k} |-> IF x = k THEN v ELSE m[x]]
MapRemove(m, k) == [x \in (DOMAIN m) \ {k} |-> m[x]]

\* ------------------------------------------------------------- Vec

Last(s) == s[Len(s)]
Front(s) == SubSeq(s, 1, Len(s) - 1)

\* ------------------------------------------- LruCache<T, u64> (lru_cache)
\* A sequence of [key, value], least recently used first.

LruContains(lru, k) == \E i \in 1 .. Len(lru) : lru[i].key = k
LruIndexOf(lru, k) == CHOOSE i \in 1 .. Len(lru) : lru[i].key = k
LruValue(lru, k) == lru[LruIndexOf(lru, k)].value
LruWithout(lru, k) == SelectSeq(lru, LAMBDA e : e.key # k)
\* contains_key and get_mut move the entry to the most recently used end
LruRefresh(lru, k) ==
    IF LruContains(lru, k)
    THEN Append(LruWithout(lru, k), [key |-> k, value |-> LruValue(lru, k)])
    ELSE lru
\* insert that makes the entry the least recently used
LruInsert_Oldest(lru, k, v, cap) ==
    LET a == << [key |-> k, value |-> v] >> \o LruWithout(lru, k)
    IN  IF Len(a) > cap THEN Tail(a) ELSE a

\* insert: a new or updated entry becomes the most recently used; the least
\* recently used one is dropped when the capacity is exceeded
LruInsert(lru, k, v, cap) ==
    LET a == Append(LruWithout(lru, k), [key |-> k, value |-> v])
    IN  IF Len(a) > cap THEN Tail(a) ELSE a

\* ---------------------------------------------------------- ActiveRefCount

active(count, key) == IF key \in DOMAIN count THEN count[key] ELSE 0

\* ------------------------------------------------------------- PageTable
\* The operators below take and return the table as a record st:
\*   page_map, page_lru, reader_count, writer_count, pending_requests,
\*   available_slots: the fields of PageTable;
\*   reader_rx, writer_rx: the page ids waiting in the two release receivers;
\*   slot_page: for each slot, the page it was last assigned to on a miss;
\*   out: the locks sent on reply channels during the current call;
\*   panicked: an unwrap() of None or a u64 underflow was hit.

\* PageTable::new with the free slots in ascending order, the highest popped
\* first
PageTable_new_Ascending(size) ==
    LET pages == size \div PAGE_SIZE
    IN  [page_count |-> pages,
         page_map |-> EmptyMap,
         page_lru |-> << >>,
         reader_count |-> EmptyMap,
         writer_count |-> EmptyMap,
         reader_rx |-> << >>,
         writer_rx |-> << >>,
         pending_requests |-> EmptyMap,
         available_slots |-> [i \in 1 .. pages |-> i - 1],
         slot_page |-> EmptyMap,
         out |-> << >>,
         panicked |-> FALSE]

PageTable_new(size) ==
    LET pages == size \div PAGE_SIZE
    IN  [page_count |-> pages,
         page_map |-> EmptyMap,
         page_lru |-> << >>,
         reader_count |-> EmptyMap,
         writer_count |-> EmptyMap,
         reader_rx |-> << >>,
         writer_rx |-> << >>,
         pending_requests |-> EmptyMap,
         available_slots |-> [i \in 1 .. pages |-> pages - i],
         slot_page |-> EmptyMap,
         out |-> << >>,
         panicked |-> FALSE]

RefCount(st, lock_type) ==
    IF lock_type = "Read" THEN st.reader_count ELSE st.writer_count

SetRefCount(st, lock_type, count) ==
    IF lock_type = "Read"
    THEN [st EXCEPT !.reader_count = count]
    ELSE [st EXCEPT !.writer_count = count]

\* contains_key that leaves the order of the LRU alone
Touch_NoRefresh(st, id) == st

\* page_lru.contains_key(id) as a side effect: the entry becomes the most
\* recently used
Touch(st, id) == [st EXCEPT !.page_lru = LruRefresh(@, id)]

\* _contains_page that does not look at the writers
_contains_page_NoWriters(st, id) ==
    \/ LruContains(st.page_lru, id)
    \/ active(st.reader_count, id) > 0

_contains_page(st, id) ==
    \/ LruContains(st.page_lru, id)
    \/ active(st.reader_count, id) > 0
    \/ active(st.writer_count, id) > 0

can_load_page(st) ==
    ~ (st.available_slots = << >> /\ Len(st.page_lru) = 0)

incr_ref_count(st, page_id, lock_type) ==
    LET s1 == [st EXCEPT !.page_lru = LruWithout(@, page_id)]
        n  == active(RefCount(s1, lock_type), page_id)
    IN  SetRefCount(s1, lock_type, MapPut(RefCount(s1, lock_type), page_id, n + 1))

create_lock(st, page_id, index, lock_type) ==
    [st   |-> incr_ref_count(st, page_id, lock_type),
     lock |-> Some([page_id |-> page_id, index |-> index, lock_type |-> lock_type])]

get_index_for_lock(st, page_id) ==
    IF LruContains(st.page_lru, page_id)
    THEN [st    |-> [st EXCEPT !.page_lru = LruWithout(@, page_id)],
          index |-> Some(LruValue(st.page_lru, page_id))]
    ELSE IF page_id \in DOMAIN st.reader_count
    THEN IF page_id \in DOMAIN st.page_map
         THEN [st |-> st, index |-> Some(st.page_map[page_id])]
         ELSE [st |-> [st EXCEPT !.panicked = TRUE], index |-> None]
    ELSE [st |-> st, index |-> None]

AssignSlot(st, page_id, index) ==
    [st EXCEPT !.page_map = MapPut(@, page_id, index),
               !.slot_page = MapPut(@, index, page_id)]

\* page_index that reuses the slot of the least recently used page and
\* leaves the page in the LRU
page_index_KeepVictim(st, page_id, lock_type) ==
    IF _contains_page(st, page_id)
    THEN LET g == get_index_for_lock(Touch(st, page_id), page_id)
         IN  IF IsSome(g.index)
             THEN create_lock(g.st, page_id, Unwrap(g.index), lock_type)
             ELSE [st |-> [g.st EXCEPT !.panicked = TRUE], lock |-> None]
    ELSE IF st.available_slots # << >>
    THEN LET index == Last(st.available_slots)
             s1 == [st EXCEPT !.available_slots = Front(@)]
         IN  create_lock(AssignSlot(s1, page_id, index), page_id, index, lock_type)
    ELSE IF st.page_lru # << >>
    THEN LET index == Head(st.page_lru).value
         IN  create_lock(AssignSlot(st, page_id, index), page_id, index, lock_type)
    ELSE [st |-> st, lock |-> None]

\* page_index that never expires a page of the LRU
page_index_NoEvict(st, page_id, lock_type) ==
    IF _contains_page(st, page_id)
    THEN LET g == get_index_for_lock(Touch(st, page_id), page_id)
         IN  IF IsSome(g.index)
             THEN create_lock(g.st, page_id, Unwrap(g.index), lock_type)
             ELSE [st |-> [g.st EXCEPT !.panicked = TRUE], lock |-> None]
    ELSE IF st.available_slots # << >>
    THEN LET index == Last(st.available_slots)
             s1 == [st EXCEPT !.available_slots = Front(@)]
         IN  create_lock(AssignSlot(s1, page_id, index), page_id, index, lock_type)
    ELSE [st |-> st, lock |-> None]

page_index(st, page_id, lock_type) ==
    IF _contains_page(st, page_id)
    THEN LET g == get_index_for_lock(Touch(st, page_id), page_id)
         IN  IF IsSome(g.index)
             THEN create_lock(g.st, page_id, Unwrap(g.index), lock_type)
             ELSE [st |-> [g.st EXCEPT !.panicked = TRUE], lock |-> None]
    ELSE IF st.available_slots # << >>
    THEN LET index == Last(st.available_slots)
             s1 == [st EXCEPT !.available_slots = Front(@)]
         IN  create_lock(AssignSlot(s1, page_id, index), page_id, index, lock_type)
    ELSE IF st.page_lru # << >>
    THEN LET index == Head(st.page_lru).value
             s1 == [st EXCEPT !.page_lru = Tail(@)]
         IN  create_lock(AssignSlot(s1, page_id, index), page_id, index, lock_type)
    ELSE [st |-> st, lock |-> None]

\* can_grant_lock whose Write arm looks at the readers only
can_grant_lock_ManyWriters(st, page_id, lock_type) ==
    /\ (_contains_page(st, page_id) \/ can_load_page(st))
    /\ IF lock_type = "Read"
       THEN active(st.writer_count, page_id) = 0
       ELSE active(st.reader_count, page_id) = 0

\* can_grant_lock whose Write arm looks at the writers only
can_grant_lock_WriteOverReaders(st, page_id, lock_type) ==
    /\ (_contains_page(st, page_id) \/ can_load_page(st))
    /\ active(st.writer_count, page_id) = 0

can_grant_lock(st, page_id, lock_type) ==
    /\ (_contains_page(st, page_id) \/ can_load_page(st))
    /\ IF lock_type = "Read"
       THEN IF active(st.writer_count, page_id) > 0
            THEN FALSE
            ELSE IF page_id \in DOMAIN st.pending_requests
                 THEN LET v == st.pending_requests[page_id]
                      IN  Len(v) = 0 \/ v[1].lock_type = "Write"
                 ELSE TRUE
       ELSE IF active(st.writer_count, page_id) > 0
            THEN FALSE
            ELSE ~ (active(st.reader_count, page_id) > 0)

\* the release a dropped lock posts on the channel of its kind
Release(st, page_id, lock_type) ==
    IF lock_type = "Read"
    THEN [st EXCEPT !.reader_rx = Append(@, page_id)]
    ELSE [st EXCEPT !.writer_rx = Append(@, page_id)]

\* send with the lock of a closed channel kept alive by nobody and released
\* by nobody
Send_Leaked(r, page_id, request) ==
    [r.st EXCEPT !.out = Append(@,
        [page_id |-> page_id, index |-> Unwrap(r.lock).index,
         lock_type |-> request.lock_type, reply |-> request.channel])]

\* request.channel.send(lock): the lock is on the reply channel of the
\* request.  On a channel whose receiver was dropped send returns
\* Err(SendError(lock)); the statement drops that value and the lock in it,
\* and Drop for PageLock posts the release.
Send(r, page_id, request) ==
    IF request.channel = ClosedChannel
    THEN Release([r.st EXCEPT !.out = Append(@,
                    [page_id |-> page_id, index |-> Unwrap(r.lock).index,
                     lock_type |-> request.lock_type,
                     reply |-> request.channel])],
                 page_id, request.lock_type)
    ELSE [r.st EXCEPT !.out = Append(@,
            [page_id |-> page_id, index |-> Unwrap(r.lock).index,
             lock_type |-> request.lock_type, reply |-> request.channel])]

\* the while loop of handle_pending_requests over the queue taken out of
\* the map; returns the table and what is left of the queue.  GrantNext is
\* the body of the loop once can_grant_lock said yes, r being what
\* page_index returned.
RECURSIVE GrantLoop(_, _, _)
RECURSIVE GrantNext(_, _, _)
\* the loop going on to the requests behind one it cannot grant
GrantLoop_SkipBlocked(st, page_id, pending) ==
    IF Len(pending) = 0 \/ st.panicked
    THEN [st |-> st, pending |-> pending]
    ELSE IF can_grant_lock(st, page_id, pending[1].lock_type)
    THEN GrantNext(page_index(Touch(st, page_id), page_id, pending[1].lock_type),
                   page_id, pending)
    ELSE LET g == GrantLoop(Touch(st, page_id), page_id, Tail(pending))
         IN  [st |-> g.st, pending |-> << Head(pending) >> \o g.pending]

GrantLoop(st, page_id, pending) ==
    IF Len(pending) = 0 \/ st.panicked
    THEN [st |-> st, pending |-> pending]
    ELSE IF can_grant_lock(st, page_id, pending[1].lock_type)
    THEN GrantNext(page_index(Touch(st, page_id), page_id, pending[1].lock_type),
                   page_id, pending)
    ELSE [st |-> Touch(st, page_id), pending |-> pending]

GrantNext(r, page_id, pending) ==
    IF IsSome(r.lock)
    THEN GrantLoop(Send(r, page_id, Head(pending)), page_id, Tail(pending))
    ELSE [st |-> [r.st EXCEPT !.panicked = TRUE], pending |-> Tail(pending)]

\* an empty queue is put back whatever the loop left
PutBack_Empty(g, page_id) ==
    [g.st EXCEPT !.pending_requests = MapPut(@, page_id, << >>)]

\* pending_requests.insert(page_id, pending) after the loop
PutBack(g, page_id) ==
    [g.st EXCEPT !.pending_requests = MapPut(@, page_id, g.pending)]

handle_pending_requests(st, page_id) ==
    IF page_id \in DOMAIN st.pending_requests
    THEN PutBack(GrantLoop([st EXCEPT !.pending_requests = MapRemove(@, page_id)],
                           page_id, st.pending_requests[page_id]),
                 page_id)
    ELSE st

\* a decrement of the readers' counter whatever the kind of the lock
DecrEntry_Readers(st, page_id, lock_type) ==
    SetRefCount(st, "Read",
                MapPut(RefCount(st, "Read"), page_id,
                       active(RefCount(st, "Read"), page_id) - 1))

\* decr_ref_count, first part: the entry of the counter is decremented
DecrEntry(st, page_id, lock_type) ==
    SetRefCount(st, lock_type,
                MapPut(RefCount(st, lock_type), page_id,
                       active(RefCount(st, lock_type), page_id) - 1))

\* decr_ref_count when the count reached zero, first: the queue of the page
\* is attempted again
RetryPending(st, page_id) ==
    IF /\ page_id \in DOMAIN st.pending_requests
       /\ Len(st.pending_requests[page_id]) > 0
    THEN handle_pending_requests(st, page_id)
    ELSE st

\* the page enters the LRU whatever its counts are
EnterLru_Unchecked(st, page_id) ==
    IF st.panicked
    THEN st
    ELSE IF page_id \in DOMAIN st.page_map
    THEN [st EXCEPT !.page_lru =
            LruInsert(@, page_id, st.page_map[page_id], st.page_count)]
    ELSE [st EXCEPT !.panicked = TRUE]

\* decr_ref_count when the count reached zero, then: a page without readers
\* and writers enters the LRU with the slot page_map has for it
EnterLru(st, page_id) ==
    IF /\ active(st.reader_count, page_id) = 0
       /\ active(st.writer_count, page_id) = 0
       /\ ~ st.panicked
    THEN IF page_id \in DOMAIN st.page_map
         THEN [st EXCEPT !.page_lru =
                 LruInsert(@, page_id, st.page_map[page_id], st.page_count)]
         ELSE [st EXCEPT !.panicked = TRUE]
    ELSE st

\* decr_ref_count putting the page in the LRU at every release
decr_ref_count_EveryRelease(st, page_id, lock_type) ==
    IF active(RefCount(st, lock_type), page_id) = 0
    THEN [st EXCEPT !.panicked = TRUE]
    ELSE LET d == RetryPending(DecrEntry(st, page_id, lock_type), page_id)
         IN  [d EXCEPT !.page_lru =
                 LruInsert(@, page_id, d.page_map[page_id], d.page_count)]

\* a decrement of a zero count is a u64 underflow
decr_ref_count(st, page_id, lock_type) ==
    IF active(RefCount(st, lock_type), page_id) = 0
    THEN [st EXCEPT !.panicked = TRUE]
    ELSE IF active(RefCount(st, lock_type), page_id) = 1
    THEN EnterLru(RetryPending(DecrEntry(st, page_id, lock_type), page_id), page_id)
    ELSE DecrEntry(st, page_id, lock_type)

RECURSIVE DrainReaders(_)
DrainReaders(st) ==
    IF st.reader_rx = << >> \/ st.panicked
    THEN st
    ELSE DrainReaders(decr_ref_count([st EXCEPT !.reader_rx = Tail(@)],
                                     Head(st.reader_rx), "Read"))

RECURSIVE DrainWriters(_)
DrainWriters(st) ==
    IF st.writer_rx = << >> \/ st.panicked
    THEN st
    ELSE DrainWriters(decr_ref_count([st EXCEPT !.writer_rx = Tail(@)],
                                     Head(st.writer_rx), "Write"))

check_messages(st) == DrainWriters(DrainReaders(st))

\* _contains_page(id) with its refresh of the LRU, on a table whose messages
\* were received
ContainsChecked(st, id) ==
    [st |-> Touch(st, id), result |-> _contains_page(st, id)]

contains_page(st, id) == ContainsChecked(check_messages(st), id)

tick(st) == check_messages(st)

\* request_lock pushing the request at the front of the queue
PushRequest_Front(st, page_id, lock_type, channel) ==
    IF st.panicked
    THEN st
    ELSE handle_pending_requests(
           [st EXCEPT !.pending_requests =
              MapPut(@, page_id,
                     << [lock_type |-> lock_type, channel |-> channel] >>
                     \o (IF page_id \in DOMAIN @ THEN @[page_id] ELSE << >>))],
           page_id)

\* request_lock after check_messages: the request joins the queue of its
\* page, and the queue is attempted
PushRequest(st, page_id, lock_type, channel) ==
    IF st.panicked
    THEN st
    ELSE handle_pending_requests(
           [st EXCEPT !.pending_requests =
              MapPut(@, page_id,
                     Append(IF page_id \in DOMAIN @ THEN @[page_id] ELSE << >>,
                            [lock_type |-> lock_type, channel |-> channel]))],
           page_id)

\* request_lock without check_messages
request_lock_Undrained(st, page_id, lock_type, channel) ==
    PushRequest(st, page_id, lock_type, channel)

request_lock(st, page_id, lock_type, channel) ==
    PushRequest(check_messages(st), page_id, lock_type, channel)

\* get_page running the reader on the first slot of page_data
FillPage_FirstSlot(r, load, data, page_id) ==
    IF IsSome(r.lock)
    THEN [st |-> r.st,
          data |-> IF load THEN [data EXCEPT ![0] = Some(page_id)] ELSE data,
          lock |-> r.lock,
          reads |-> IF load THEN 1 ELSE 0]
    ELSE [st |-> r.st, data |-> data, lock |-> None, reads |-> 0]

\* get_page once page_index returned r: the reader is run on the slot when
\* the page has to be loaded
FillPage(r, load, data, page_id) ==
    IF IsSome(r.lock)
    THEN [st |-> r.st,
          data |-> IF load
                   THEN [data EXCEPT ![Unwrap(r.lock).index] = Some(page_id)]
                   ELSE data,
          lock |-> r.lock,
          reads |-> IF load THEN 1 ELSE 0]
    ELSE [st |-> r.st, data |-> data, lock |-> None, reads |-> 0]

\* get_page running the reader whether or not the page was there
LoadPage_Always(c, data, page_id) ==
    FillPage(page_index(c.st, page_id, "Read"), TRUE, data, page_id)

\* get_page once contains_page returned c
LoadPage(c, data, page_id) ==
    FillPage(page_index(c.st, page_id, "Read"), ~ c.result, data, page_id)

\* WorkingMemory::get_page: the lock and slot it returns, and whether the
\* caller's reader was run on the slot
get_page(st, data, page_id) ==
    LoadPage(contains_page(st, page_id), data, page_id)

\* -------------------------------------------------- soupdb/io/cache.rs
\* The cell-based variant: one ref_count, and locks that call the table
\* when they are made and dropped.  Its table is a record t:
\*   page_count, page_map, page_lru, ref_count, available_slots: the fields
\*   of PageTable; panicked: an unwrap() of None or a u64 underflow was hit.

Cell_new(size) ==
    LET pages == size \div PAGE_SIZE
    IN  [page_count |-> pages,
         page_map |-> EmptyMap,
         page_lru |-> << >>,
         ref_count |-> EmptyMap,
         available_slots |-> [i \in 1 .. pages |-> pages - i],
         panicked |-> FALSE]

Cell_incr_ref_count(t, page_id) ==
    [t EXCEPT !.page_lru = LruWithout(@, page_id),
              !.ref_count = MapPut(@, page_id, active(@, page_id) + 1)]

Cell_decr_ref_count(t, page_id) ==
    IF active(t.ref_count, page_id) = 0
    THEN [t EXCEPT !.panicked = TRUE]
    ELSE IF active(t.ref_count, page_id) > 1
    THEN [t EXCEPT !.ref_count = MapPut(@, page_id, @[page_id] - 1)]
    ELSE IF page_id \in DOMAIN t.page_map
    THEN [t EXCEPT !.ref_count = MapRemove(@, page_id),
                   !.page_lru = LruInsert(@, page_id, t.page_map[page_id],
                                          t.page_count)]
    ELSE [t EXCEPT !.panicked = TRUE]

\* contains_page answering without the refresh of contains_key
Cell_contains_page_NoRefresh(t, id) ==
    [t |-> t,
     result |-> id \in DOMAIN t.ref_count \/ LruContains(t.page_lru, id)]

\* contains_page: page_lru.contains_key is evaluated, and refreshes the
\* entry, when ref_count has no entry for the page
Cell_contains_page(t, id) ==
    IF id \in DOMAIN t.ref_count
    THEN [t |-> t, result |-> TRUE]
    ELSE [t |-> [t EXCEPT !.page_lru = LruRefresh(@, id)],
          result |-> LruContains(t.page_lru, id)]

\* PageTable::page_index(id)
Cell_page_index(t, id) ==
    IF LruContains(t.page_lru, id)
    THEN [t |-> [t EXCEPT !.page_lru = LruInsert(@, id, 0, t.page_count)],
          index |-> Some(LruValue(t.page_lru, id))]
    ELSE IF id \in DOMAIN t.ref_count
    THEN IF id \in DOMAIN t.page_map
         THEN [t |-> t, index |-> Some(t.page_map[id])]
         ELSE [t |-> [t EXCEPT !.panicked = TRUE], index |-> None]
    ELSE IF t.available_slots # << >>
    THEN [t |-> [t EXCEPT !.available_slots = Front(@),
                          !.page_map = MapPut(@, id, Last(t.available_slots))],
          index |-> Some(Last(t.available_slots))]
    ELSE IF t.page_lru # << >>
    THEN [t |-> [t EXCEPT !.page_lru = Tail(@),
                          !.page_map = MapPut(@, id, Head(t.page_lru).value)],
          index |-> Some(Head(t.page_lru).value)]
    ELSE [t |-> t, index |-> None]

\* LruPageLock::new on what page_index returned
LruPageLock_new(r, page_id) ==
    IF IsSome(r.index)
    THEN [t |-> Cell_incr_ref_count(r.t, page_id), index |-> r.index]
    ELSE r

\* WorkingMemory::page_index(page_id)
WorkingMemory_page_index(t, page_id) ==
    LruPageLock_new(Cell_page_index(t, page_id), page_id)

\* ------------------------------------------------------- io/dbfile.rs
\* A path holds a file with its bytes, or no file (Absent), or cannot hold
\* one because its directory is missing (NoDir).

Absent == [kind |-> "absent", bytes |-> << >>]
NoDir == [kind |-> "nodir", bytes |-> << >>]
FileOf(bytes) == [kind |-> "file", bytes |-> bytes]

\* size_of::<PageMetadata>() and size_of::<DbMetadata>(): two u64 each
U64_LEN == 8
BYTE == 256
page_header_len == 2 * U64_LEN
db_header_len == 2 * U64_LEN

\* v >> (8 * n)
RECURSIVE ShiftBytes(_, _)
ShiftBytes(v, n) == IF n = 0 THEN v ELSE ShiftBytes(v \div BYTE, n - 1)

\* the bytes of a u64 in memory, least significant first, stored the other
\* way round
u64_bytes_BigEndian(v) ==
    [i \in 1 .. U64_LEN |-> ShiftBytes(v, U64_LEN - i) % BYTE]

\* the bytes of a u64 in memory, least significant first (the layout
\* tests::test_page reads)
u64_bytes(v) ==
    [i \in 1 .. U64_LEN |-> ShiftBytes(v, i - 1) % BYTE]

\* the u64 that eight bytes of memory are
RECURSIVE u64_from(_)
u64_from(b) ==
    IF b = << >> THEN 0 ELSE Head(b) + BYTE * u64_from(Tail(b))

\* BinaryStruct::to_bytes of the two repr(C) structs: the fields in their
\* declared order
PageMetadata_to_bytes(m) == u64_bytes(m.prev_page) \o u64_bytes(m.next_page)
DbMetadata_to_bytes(m) == u64_bytes(m.first_free_page) \o u64_bytes(m.last_page)

\* BinaryStruct::from_bytes for DbMetadata, of data that has the bytes
DbMetadata_from_bytes(data) ==
    [first_free_page |-> u64_from(SubSeq(data, 1, U64_LEN)),
     last_page |-> u64_from(SubSeq(data, U64_LEN + 1, 2 * U64_LEN))]

\* x.write_to_buf(&mut buf[from .. to]): Write for &mut [u8] copies as many
\* bytes as fit at the start of the slice (from is counted from 0)
write_to_buf(buf, from, to, bytes) ==
    SubSeq(buf, 1, from)
        \o SubSeq(bytes, 1, IF Len(bytes) < to - from THEN Len(bytes)
                            ELSE to - from)
        \o SubSeq(buf,
                  from + 1 + (IF Len(bytes) < to - from THEN Len(bytes)
                              ELSE to - from),
                  Len(buf))

\* the buffer of a file header with the given DbMetadata, as create lays it
\* out: two zeroed pages, the PageMetadata of page 0, the DbMetadata behind
\* it, the PageMetadata of page 1
HeaderBuf(page_meta, meta) ==
    write_to_buf(
        write_to_buf(
            write_to_buf([i \in 1 .. 2 * PAGE_SIZE |-> 0],
                         0, 2 * PAGE_SIZE, PageMetadata_to_bytes(page_meta)),
            page_header_len, page_header_len + db_header_len,
            DbMetadata_to_bytes(meta)),
        PAGE_SIZE, 2 * PAGE_SIZE, PageMetadata_to_bytes(page_meta))

\* DbFile::create(name, path) on the files fs: File::create(path).unwrap()
\* panics where the file cannot be made, and truncates a file that is there
create(fs, path) ==
    IF fs[path] = NoDir
    THEN [fs |-> fs, result |-> None]
    ELSE [fs |-> [fs EXCEPT ![path] =
                    FileOf(HeaderBuf([prev_page |-> 0, next_page |-> 0],
                                     [first_free_page |-> 1, last_page |-> 1]))],
          result |-> Some([first_free_page |-> 1, last_page |-> 1])]

\* DbFile::read_page(handle, page_index, buffer): seek and read_exact, whose
\* error is dropped.  Of a file too short read_exact leaves unspecified bytes
\* in the buffer; open, the only caller, looks at the buffer's length alone
\* before it panics, so the bytes are left as they were.
read_page(file, index, buffer) ==
    IF Len(file) >= index * PAGE_SIZE + Len(buffer)
    THEN SubSeq(file, index * PAGE_SIZE + 1, index * PAGE_SIZE + Len(buffer))
    ELSE buffer

\* DbFile::open once the buffer was read: the slice
\* buf[page_header_len .. page_header_len + db_header_len] panics when the
\* buffer is shorter than its end
open_meta(buf) ==
    IF page_header_len + db_header_len > Len(buf)
    THEN None
    ELSE Some(DbMetadata_from_bytes(
                SubSeq(buf, page_header_len + 1, page_header_len + db_header_len)))

\* DbFile::open(name, path): File::open(path).unwrap() panics where there is
\* no file; the buffer has size_of::<DbMetadata>() bytes
open(fs, path) ==
    IF fs[path] = Absent \/ fs[path] = NoDir
    THEN None
    ELSE open_meta(read_page(fs[path].bytes, 0, [i \in 1 .. db_header_len |-> 0]))

\* ---------------------------------------------------- ast/value_type.rs
\* Text is a sequence of one-character strings.

\* enum ValueType: one record shape for every variant
ValueType(tag, n, of) == [tag |-> tag, n |-> n, of |-> of]
Unknown == ValueType("Unknown", 0, None)
AutoId == ValueType("AutoId", 0, None)
Bool == ValueType("Bool", 0, None)
Uint == ValueType("Uint", 0, None)
Int_ == ValueType("Int", 0, None)
Float == ValueType("Float", 0, None)
Str(n) == ValueType("Str", n, None)
Nullable(v) == ValueType("Nullable", 0, Some(v))
Vector(n, v) == ValueType("Vector", n, Some(v))

Digits == << "0", "1", "2", "3", "4", "5", "6", "7", "8", "9" >>

\* format!("{}", n) of a u64
RECURSIVE Decimal(_)
Decimal(n) ==
    IF n < 10 THEN << Digits[n + 1] >>
    ELSE Decimal(n \div 10) \o << Digits[(n % 10) + 1] >>

\* to_ddl panics on Unknown, at any depth
RECURSIVE ContainsUnknown(_)
ContainsUnknown(t) ==
    \/ t.tag = "Unknown"
    \/ IsSome(t.of) /\ ContainsUnknown(Unwrap(t.of))

RECURSIVE ValueType_to_ddl(_)
ValueType_to_ddl(t) ==
    CASE t.tag = "AutoId" -> << "a", "u", "t", "o", "i", "d" >>
      [] t.tag = "Bool" -> << "b", "o", "o", "l" >>
      [] t.tag = "Uint" ->
            << "u", "n", "s", "i", "g", "n", "e", "d", " ", "i", "n", "t" >>
      [] t.tag = "Int" -> << "i", "n", "t" >>
      [] t.tag = "Float" -> << "f", "l", "o", "a", "t" >>
      [] t.tag = "Str" ->
            IF t.n > 0
            THEN << "s", "t", "r", "(" >> \o Decimal(t.n) \o << ")" >>
            ELSE << "s", "t", "r" >>
      [] t.tag = "Nullable" ->
            << "n", "u", "l", "l", "a", "b", "l", "e", " " >>
                \o ValueType_to_ddl(Unwrap(t.of))
      [] t.tag = "Vector" ->
            << "v", "e", "c", "t", "o", "r", "(" >> \o Decimal(t.n)
                \o << ")", " " >> \o ValueType_to_ddl(Unwrap(t.of))

\* pub const MAX_INLINE_STRING_LENGTH: u64
MAX_INLINE_STRING_LENGTH == 256

\* ValueType::size_of of ast/value_type.rs, which panics on Unknown at any
\* depth (the sizes drawn stay far below 2^64)
RECURSIVE ValueType_size_of(_)
ValueType_size_of(t) ==
    CASE t.tag = "Bool" -> 1
      [] t.tag = "Uint" -> 8
      [] t.tag = "Int" -> 8
      [] t.tag = "Float" -> 8
      [] t.tag = "AutoId" -> 8
      [] t.tag = "Str" ->
            IF t.n = 0 THEN 10
            ELSE IF t.n > MAX_INLINE_STRING_LENGTH
            THEN MAX_INLINE_STRING_LENGTH
            ELSE t.n
      [] t.tag = "Nullable" -> 1 + ValueType_size_of(Unwrap(t.of))
      [] t.tag = "Vector" -> t.n * ValueType_size_of(Unwrap(t.of))

\* ValueType::size_of of soupdb/value.rs
RECURSIVE soupdb_ValueType_size_of(_)
soupdb_ValueType_size_of(t) ==
    CASE t.tag = "Bool" -> 1
      [] t.tag = "Uint" -> 8
      [] t.tag = "Int" -> 8
      [] t.tag = "Float" -> 8
      [] t.tag = "AutoId" -> 8
      [] t.tag = "Str" ->
            IF t.n = 0 THEN 16
            ELSE IF t.n > MAX_INLINE_STRING_LENGTH
            THEN MAX_INLINE_STRING_LENGTH
            ELSE t.n
      [] t.tag = "Nullable" -> 1 + soupdb_ValueType_size_of(Unwrap(t.of))
      [] t.tag = "Vector" -> t.n * soupdb_ValueType_size_of(Unwrap(t.of))

\* ---------------------------------------------------------- ast/tuple.rs

TupleEntry(name, value) == [name |-> name, value |-> value]

TupleEntry_to_ddl(e) == e.name \o << " " >> \o ValueType_to_ddl(e.value)

\* s.join(", ")
RECURSIVE Join(_)
Join(s) ==
    IF s = << >> THEN << >>
    ELSE IF Len(s) = 1 THEN Head(s)
    ELSE Head(s) \o << ",", " " >> \o Join(Tail(s))

TupleDef_to_ddl(v) ==
    << "(" >> \o Join([k \in 1 .. Len(v) |-> TupleEntry_to_ddl(v[k])])
        \o << ")" >>

\* TupleDef::size_of: the sizes of the entries added up from 0
RECURSIVE TupleDef_size_of(_)
TupleDef_size_of(v) ==
    IF v = << >> THEN 0
    ELSE TupleDef_size_of(Front(v)) + ValueType_size_of(Last(v).value)

TupleContainsUnknown(v) == \E k \in 1 .. Len(v) : ContainsUnknown(v[k].value)

\* ------------------------------------------------------------- model/*.rs
\* Model {name, schema}: kind names the ModelType behind the Box; a graph has
\* a node schema and an edge schema, a document has neither.

Model(kind, name, schema, edge_schema) ==
    [kind |-> kind, name |-> name, schema |-> schema,
     edge_schema |-> edge_schema]

CREATE_ == << "c", "r", "e", "a", "t", "e", " " >>

Table_to_ddl(m) ==
    CREATE_ \o << "t", "a", "b", "l", "e", " " >> \o m.name \o << " " >>
        \o TupleDef_to_ddl(m.schema) \o << ";" >>

Document_to_ddl(m) ==
    CREATE_ \o << "d", "o", "c", "u", "m", "e", "n", "t", " " >> \o m.name
        \o << ";" >>

GeoHash_to_ddl(m) ==
    CREATE_ \o << "g", "e", "o", "h", "a", "s", "h", " " >> \o m.name
        \o << " " >> \o TupleDef_to_ddl(m.schema) \o << ";" >>

Graph_to_ddl(m) ==
    CREATE_ \o << "g", "r", "a", "p", "h", " " >> \o m.name \o << " " >>
        \o TupleDef_to_ddl(m.schema) \o << " " >>
        \o TupleDef_to_ddl(m.edge_schema) \o << ";" >>

TimeSeries_to_ddl(m) ==
    CREATE_ \o << "t", "i", "m", "e", "s", "e", "r", "i", "e", "s", " " >>
        \o m.name \o << " " >> \o TupleDef_to_ddl(m.schema) \o << ";" >>

\* Model::to_ddl: self.schema.to_ddl(&self.name)
Model_to_ddl(m) ==
    CASE m.kind = "table" -> Table_to_ddl(m)
      [] m.kind = "document" -> Document_to_ddl(m)
      [] m.kind = "geohash" -> GeoHash_to_ddl(m)
      [] m.kind = "graph" -> Graph_to_ddl(m)
      [] m.kind = "timeseries" -> TimeSeries_to_ddl(m)

ModelContainsUnknown(m) ==
    TupleContainsUnknown(m.schema) \/ TupleContainsUnknown(m.edge_schema)

\* ----------------------------------------------------------- ast/parse.rs
\* A parser maps the input text to an IResult: Done(rest, value), Error or
\* Incomplete.  Panic stands for an unwrap of an Err inside a parser: the
\* call does not return.

Done(rest, value) == [kind |-> "done", rest |-> rest, value |-> value]
Error == [kind |-> "error", rest |-> << >>, value |-> None]
Incomplete == [kind |-> "incomplete", rest |-> << >>, value |-> None]
Panic == [kind |-> "panic", rest |-> << >>, value |-> None]

IsDone(r) == r.kind = "done"

\* `a >> b` of do_parse!: what follows runs on what a Done left, anything
\* else is the result
Then(r, F(_)) == IF IsDone(r) THEN F(r) ELSE r

\* a result is taken once and used by what follows
With(r, F(_)) == F(r)

LOWER_CASE ==
    << "a", "b", "c", "d", "e", "f", "g", "h", "i", "j", "k", "l", "m",
       "n", "o", "p", "q", "r", "s", "t", "u", "v", "w", "x", "y", "z" >>
UPPER_CASE ==
    << "A", "B", "C", "D", "E", "F", "G", "H", "I", "J", "K", "L", "M",
       "N", "O", "P", "Q", "R", "S", "T", "U", "V", "W", "X", "Y", "Z" >>

Range(s) == { s[k] : k \in 1 .. Len(s) }

Lower(c) ==
    IF c \in Range(UPPER_CASE)
    THEN LOWER_CASE[CHOOSE k \in 1 .. Len(UPPER_CASE) : UPPER_CASE[k] = c]
    ELSE c

Drop(i, n) == SubSeq(i, n + 1, Len(i))

\* how many leading characters of i are in the set
RECURSIVE SpanLen(_, _)
SpanLen(i, set) ==
    IF i # << >> /\ Head(i) \in set THEN 1 + SpanLen(Tail(i), set) ELSE 0

\* how many leading characters of i are not in the set
RECURSIVE NotSpanLen(_, _)
NotSpanLen(i, set) ==
    IF i # << >> /\ Head(i) \notin set THEN 1 + NotSpanLen(Tail(i), set) ELSE 0

\* complete!: Incomplete becomes Error
complete(r) == IF r.kind = "incomplete" THEN Error ELSE r

\* opt!: Error becomes Done(None) on the same input
opt(i, r) ==
    CASE r.kind = "done" -> Done(r.rest, Some(r.value))
      [] r.kind = "error" -> Done(i, None)
      [] OTHER -> r

\* one alternative of alt_complete!: the first that is Done wins
Or(r, next) == IF r.kind \in { "done", "panic" } THEN r ELSE next

\* the separator of ws!
sp(i) == Drop(i, SpanLen(i, { " ", "\t", "\r", "\n" }))

\* ws! around one element: the separator is eaten before it, on the input
\* the caller hands over, and after it
Trim(r) == IF IsDone(r) THEN Done(sp(r.rest), r.value) ELSE r

\* tag!: the value is the tag
tag(i, t) ==
    IF \E k \in 1 .. Len(t) : k <= Len(i) /\ i[k] # t[k] THEN Error
    ELSE IF Len(i) < Len(t) THEN Incomplete
    ELSE Done(Drop(i, Len(t)), t)

\* tag_no_case!: the value is what the input spells
tag_no_case(i, t) ==
    IF \E k \in 1 .. Len(t) : k <= Len(i) /\ Lower(i[k]) # Lower(t[k])
    THEN Error
    ELSE IF Len(i) < Len(t) THEN Incomplete
    ELSE Done(Drop(i, Len(t)), SubSeq(i, 1, Len(t)))

\* char!
char(i, c) ==
    IF i = << >> THEN Incomplete
    ELSE IF Head(i) = c THEN Done(Tail(i), c)
    ELSE Error

\* is_a_s!: the longest non-empty prefix made of the given characters
is_a_s(i, set) ==
    IF i = << >> THEN Incomplete
    ELSE IF SpanLen(i, set) = 0 THEN Error
    ELSE Done(Drop(i, SpanLen(i, set)), SubSeq(i, 1, SpanLen(i, set)))

\* is_not!: the longest non-empty prefix free of the given characters
is_not(i, set) ==
    IF i = << >> THEN Incomplete
    ELSE IF NotSpanLen(i, set) = 0 THEN Error
    ELSE Done(Drop(i, NotSpanLen(i, set)), SubSeq(i, 1, NotSpanLen(i, set)))

\* nom::digit
digit(i) == is_a_s(i, Range(Digits))

identifier(i) ==
    Then(is_a_s(i, Range(LOWER_CASE) \cup Range(UPPER_CASE) \cup { "_" }),
         LAMBDA first_char :
    Then(opt(first_char.rest,
             complete(is_a_s(first_char.rest,
                             Range(LOWER_CASE) \cup Range(UPPER_CASE)
                                \cup { "_" } \cup Range(Digits)))),
         LAMBDA chars :
    Done(chars.rest,
         first_char.value
            \o (IF IsSome(chars.value) THEN Unwrap(chars.value) ELSE << >>))))

quoted_char_sequence(i) ==
    Then(char(i, "\""), LAMBDA lparen :
    Then(opt(lparen.rest, is_not(lparen.rest, { "\"" })), LAMBDA chars :
    Then(char(chars.rest, "\""), LAMBDA rparen :
    Done(rparen.rest,
         IF IsSome(chars.value) THEN Unwrap(chars.value) ELSE << >>))))

\* val.parse::<u64>()
RECURSIVE ParseU64(_)
ParseU64(s) ==
    IF s = << >> THEN 0
    ELSE 10 * ParseU64(Front(s))
            + (CHOOSE d \in 0 .. 9 : Digits[d + 1] = Last(s))

\* u64::MAX as format!("{}", ..) prints it
U64_MAX ==
    << "1", "8", "4", "4", "6", "7", "4", "4", "0", "7",
       "3", "7", "0", "9", "5", "5", "1", "6", "1", "5" >>

\* a <= b, for digit strings of one length
RECURSIVE DigitsLeq(_, _)
DigitsLeq(a, b) ==
    \/ a = << >>
    \/ ParseU64(<< Head(a) >>) < ParseU64(<< Head(b) >>)
    \/ Head(a) = Head(b) /\ DigitsLeq(Tail(a), Tail(b))

\* val.parse::<u64>() is Ok: the digits, without leading zeros, stand for
\* a number up to u64::MAX
FitsU64(s) ==
    \/ Len(s) - SpanLen(s, { "0" }) < Len(U64_MAX)
    \/ /\ Len(s) - SpanLen(s, { "0" }) = Len(U64_MAX)
       /\ DigitsLeq(Drop(s, SpanLen(s, { "0" })), U64_MAX)

\* val.parse::<u64>().unwrap()
uint_literal_parser(i) ==
    Then(digit(i), LAMBDA val :
    IF FitsU64(val.value) THEN Done(val.rest, ParseU64(val.value)) ELSE Panic)

int_literal_parser(i) ==
    Then(opt(i, complete(tag(i, << "-" >>))), LAMBDA sign :
    Then(uint_literal_parser(sign.rest), LAMBDA val :
    Done(val.rest,
         (IF sign.value = Some(<< "-" >>) THEN -1 ELSE 1) * val.value)))

\* format!("{}", value) of an i64
FormatI64(v) == IF v < 0 THEN << "-" >> \o Decimal(0 - v) ELSE Decimal(v)

RECURSIVE StripZeros(_)
StripZeros(dec) ==
    IF dec # << >> /\ Last(dec) = "0" THEN StripZeros(Front(dec)) ELSE dec

\* the f64 a literal base.dec stands for, as format!("{}", value) prints it:
\* no leading zeros, no trailing zeros, no point before an empty fraction
\* (exact for the short literals drawn here)
FormatF64(base, dec) ==
    Decimal(ParseU64(base))
        \o (IF StripZeros(dec) = << >> THEN << >>
            ELSE << "." >> \o StripZeros(dec))

\* the value is kept as format!("{}", value) prints it
float_literal_parser(i) ==
    Then(digit(i), LAMBDA base :
    Then(complete(Then(tag(base.rest, << "." >>),
                       LAMBDA point : digit(point.rest))),
         LAMBDA dec :
    Done(dec.rest, FormatF64(base.value, dec.value))))

string_literal_parser(i) == quoted_char_sequence(i)

true_literal_parser(i) ==
    Then(tag_no_case(i, << "T", "R", "U", "E" >>),
         LAMBDA t : Done(t.rest, TRUE))

false_literal_parser(i) ==
    Then(tag_no_case(i, << "F", "A", "L", "S", "E" >>),
         LAMBDA t : Done(t.rest, FALSE))

bool_literal_parser(i) ==
    Or(true_literal_parser(i), Or(false_literal_parser(i), Error))

null_literal_parser(i) ==
    Then(tag_no_case(i, << "N", "U", "L", "L" >>),
         LAMBDA t : Done(t.rest, << >>))

size_spec_parser(i) ==
    Then(char(i, "("), LAMBDA lparen :
    Then(uint_literal_parser(lparen.rest), LAMBDA size :
    Then(char(size.rest, ")"), LAMBDA rparen :
    Done(rparen.rest, size.value))))

bool_valuetype_parser(i) ==
    Then(tag_no_case(i, << "B", "O", "O", "L" >>),
         LAMBDA t : Done(t.rest, Bool))

uint_valuetype_parser(i) ==
    Then(Trim(tag_no_case(sp(i), << "U", "N", "S", "I", "G", "N", "E", "D" >>)),
         LAMBDA unsigned :
    Then(Trim(tag_no_case(unsigned.rest, << "I", "N", "T" >>)),
         LAMBDA t : Done(t.rest, Uint)))

int_valuetype_parser(i) ==
    Then(tag_no_case(i, << "I", "N", "T" >>), LAMBDA t : Done(t.rest, Int_))

float_valuetype_parser(i) ==
    Then(tag_no_case(i, << "F", "L", "O", "A", "T" >>),
         LAMBDA t : Done(t.rest, Float))

str_valuetype_parser(i) ==
    Then(tag_no_case(i, << "S", "T", "R" >>), LAMBDA t :
    Then(opt(t.rest, size_spec_parser(t.rest)), LAMBDA size :
    Done(size.rest, Str(IF IsSome(size.value) THEN Unwrap(size.value) ELSE 0))))

RECURSIVE valuetype_parser(_)

nullable_valuetype_parser(i) ==
    Then(Trim(tag_no_case(sp(i), << "N", "U", "L", "L", "A", "B", "L", "E" >>)),
         LAMBDA t :
    Then(Trim(valuetype_parser(t.rest)), LAMBDA schema :
    Done(schema.rest, Nullable(schema.value))))

vector_valuetype_parser(i) ==
    Then(Trim(tag_no_case(sp(i), << "V", "E", "C", "T", "O", "R" >>)),
         LAMBDA t :
    Then(Trim(char(t.rest, "(")), LAMBDA lparen :
    Then(Trim(uint_literal_parser(lparen.rest)), LAMBDA size :
    Then(Trim(char(size.rest, ")")), LAMBDA rparen :
    Then(Trim(valuetype_parser(rparen.rest)), LAMBDA schema :
    Done(schema.rest, Vector(size.value, schema.value)))))))

valuetype_parser(i) ==
    Or(bool_valuetype_parser(i),
    Or(uint_valuetype_parser(i),
    Or(int_valuetype_parser(i),
    Or(float_valuetype_parser(i),
    Or(str_valuetype_parser(i),
    Or(nullable_valuetype_parser(i),
    Or(vector_valuetype_parser(i), Error)))))))

tuple_entry_parser(i) ==
    Then(Trim(identifier(sp(i))), LAMBDA name :
    Then(Trim(valuetype_parser(name.rest)), LAMBDA value :
    Done(value.rest, TupleEntry(name.value, value.value))))

\* separated_list_complete!(char!(','), tuple_entry_parser) after its first
\* element: a separator or an element that fails, or an element that
\* consumes nothing, ends the list where the last element ended
RECURSIVE separated_list_loop(_, _)
separated_list_loop(input, res) ==
    With(complete(char(input, ",")), LAMBDA sep :
    IF ~ IsDone(sep) THEN Done(input, res)
    ELSE With(complete(tuple_entry_parser(sep.rest)), LAMBDA elem :
         IF elem.kind = "panic" THEN elem
         ELSE IF ~ IsDone(elem) \/ Len(elem.rest) = Len(sep.rest)
         THEN Done(input, res)
         ELSE separated_list_loop(elem.rest, Append(res, elem.value))))

separated_list_complete(i) ==
    With(complete(tuple_entry_parser(i)), LAMBDA first :
    IF first.kind = "panic" THEN first
    ELSE IF ~ IsDone(first) THEN Done(i, << >>)
    ELSE IF Len(first.rest) = Len(i) THEN Error
    ELSE separated_list_loop(first.rest, << first.value >>))

tuple_def_parser(i) ==
    Then(Trim(char(sp(i), "(")), LAMBDA lparen :
    Then(Trim(separated_list_complete(lparen.rest)), LAMBDA tuple_entries :
    Then(Trim(char(tuple_entries.rest, ")")), LAMBDA rparen :
    Done(rparen.rest, tuple_entries.value))))

create_table(i) ==
    Then(Trim(tag_no_case(sp(i), << "C", "R", "E", "A", "T", "E" >>)),
         LAMBDA c :
    Then(Trim(tag_no_case(c.rest, << "T", "A", "B", "L", "E" >>)), LAMBDA k :
    Then(Trim(identifier(k.rest)), LAMBDA name :
    Then(Trim(tuple_def_parser(name.rest)), LAMBDA tuple_def :
    Then(Trim(char(tuple_def.rest, ";")), LAMBDA semi :
    Done(semi.rest, Model("table", name.value, tuple_def.value, << >>)))))))

create_document(i) ==
    Then(Trim(tag_no_case(sp(i), << "C", "R", "E", "A", "T", "E" >>)),
         LAMBDA c :
    Then(Trim(tag_no_case(c.rest, << "D", "O", "C", "U", "M", "E", "N", "T" >>)),
         LAMBDA k :
    Then(Trim(identifier(k.rest)), LAMBDA name :
    Then(Trim(char(name.rest, ";")), LAMBDA semi :
    Done(semi.rest, Model("document", name.value, << >>, << >>))))))

create_geohash(i) ==
    Then(Trim(tag_no_case(sp(i), << "C", "R", "E", "A", "T", "E" >>)),
         LAMBDA c :
    Then(Trim(tag_no_case(c.rest, << "G", "E", "O", "H", "A", "S", "H" >>)),
         LAMBDA k :
    Then(Trim(identifier(k.rest)), LAMBDA name :
    Then(Trim(tuple_def_parser(name.rest)), LAMBDA tuple_def :
    Then(Trim(char(tuple_def.rest, ";")), LAMBDA semi :
    Done(semi.rest, Model("geohash", name.value, tuple_def.value, << >>)))))))

create_graph(i) ==
    Then(Trim(tag_no_case(sp(i), << "C", "R", "E", "A", "T", "E" >>)),
         LAMBDA c :
    Then(Trim(tag_no_case(c.rest, << "G", "R", "A", "P", "H" >>)), LAMBDA k :
    Then(Trim(identifier(k.rest)), LAMBDA name :
    Then(Trim(tuple_def_parser(name.rest)), LAMBDA node_schema :
    Then(Trim(tuple_def_parser(node_schema.rest)), LAMBDA edge_schema :
    Then(Trim(char(edge_schema.rest, ";")), LAMBDA semi :
    Done(semi.rest,
         Model("graph", name.value, node_schema.value, edge_schema.value))))))))

create_timeseries(i) ==
    Then(Trim(tag_no_case(sp(i), << "C", "R", "E", "A", "T", "E" >>)),
         LAMBDA c :
    Then(Trim(tag_no_case(c.rest,
                          << "T", "I", "M", "E", "S", "E", "R", "I", "E", "S" >>)),
         LAMBDA k :
    Then(Trim(identifier(k.rest)), LAMBDA name :
    Then(Trim(tuple_def_parser(name.rest)), LAMBDA tuple_def :
    Then(Trim(char(tuple_def.rest, ";")), LAMBDA semi :
    Done(semi.rest, Model("timeseries", name.value, tuple_def.value, << >>)))))))

create_command_parser(i) ==
    Or(create_table(i),
    Or(create_document(i),
    Or(create_geohash(i),
    Or(create_graph(i),
    Or(create_timeseries(i), Error)))))

command_parser(i) == Or(create_command_parser(i), Error)

Ok(v) == [ok |-> TRUE, value |-> Some(v)]
Err == [ok |-> FALSE, value |-> None]

\* Done with nothing left is Ok; input left over, Error and Incomplete are
\* a ParseError
parser_wrapper(r) == IF IsDone(r) /\ r.rest = << >> THEN Ok(r.value) ELSE Err

parse_command(input) == parser_wrapper(command_parser(input))

\* every command the parser builds is a CreateModel
Model_from_ddl(ddl) == parse_command(ddl)

\* ------------------------------------------------------------ ast/mod.rs

BinaryOperators ==
    { "OpMul", "OpDiv", "OpAdd", "OpSub", "OpEq", "OpNeq", "OpLt", "OpGt",
      "OpLte", "OpGte", "OpIs", "OpLike", "OpIn", "OpAnd", "OpOr" }

\* BinaryOperator::precedence with every class one lower for the
\* multiplicative operators than for the additive ones
precedence_AddOverMul(op) ==
    CASE op \in { "OpMul", "OpDiv" } -> 4
      [] op \in { "OpAdd", "OpSub" } -> 5
      [] op \in { "OpEq", "OpNeq", "OpLt", "OpGt", "OpLte", "OpGte", "OpIs",
                  "OpLike", "OpIn" } -> 3
      [] op \in { "OpAnd", "OpOr" } -> 2

\* BinaryOperator::precedence
precedence(op) ==
    CASE op \in { "OpMul", "OpDiv" } -> 5
      [] op \in { "OpAdd", "OpSub" } -> 4
      [] op \in { "OpEq", "OpNeq", "OpLt", "OpGt", "OpLte", "OpGte", "OpIs",
                  "OpLike", "OpIn" } -> 3
      [] op \in { "OpAnd", "OpOr" } -> 2

\* enum Expr: one record shape for every variant; kids are the boxed
\* operands, left before right
Expr(node, value, op, kids) ==
    [node |-> node, value |-> value, op |-> op, kids |-> kids]
Literal(value_type, value) ==
    Expr("Literal", [value_type |-> value_type, value |-> value], "", << >>)
Id(name, qualifier) ==
    Expr("Id", [name |-> name, qualifier |-> qualifier], "", << >>)
UnOpExpr(expr, op) == Expr("UnOp", << >>, op, << expr >>)
BinOpExpr(left, right, op) == Expr("BinOp", << >>, op, << left, right >>)

\* ---------------------------------------------------------- ast/binop.rs

\* enum ExprToken
ExprToken(tok, op, expr) == [tok |-> tok, op |-> op, expr |-> expr]
OpenParen == ExprToken("OpenParen", "", None)
CloseParen == ExprToken("CloseParen", "", None)
Term(expr) == ExprToken("Term", "", Some(expr))
UnOp(op) == ExprToken("UnOp", op, None)
BinOp(op) == ExprToken("BinOp", op, None)

\* the two stacks of shunting_yard, their tops last, and whether an unwrap
\* or the "invalid operator" arm has panicked
Stacks(expr_stack, op_stack, panic) ==
    [expr_stack |-> expr_stack, op_stack |-> op_stack, panic |-> panic]

Panicked(st) == Stacks(st.expr_stack, st.op_stack, TRUE)

\* complete_expr(op_stack.pop(), &mut expr_stack): the operator on top of
\* op_stack is taken off and applied to the operands on top of expr_stack
complete_expr(st) ==
    LET top == Last(st.op_stack)
        n == Len(st.expr_stack)
    IN  IF st.op_stack = << >> THEN Panicked(st)
        ELSE IF top.tok = "BinOp"
        THEN IF n < 2 THEN Panicked(st)
             ELSE Stacks(Append(SubSeq(st.expr_stack, 1, n - 2),
                                BinOpExpr(st.expr_stack[n - 1],
                                          st.expr_stack[n], top.op)),
                         Front(st.op_stack), st.panic)
        ELSE IF top.tok = "UnOp"
        THEN IF n < 1 THEN Panicked(st)
             ELSE Stacks(Append(Front(st.expr_stack),
                                UnOpExpr(st.expr_stack[n], top.op)),
                         Front(st.op_stack), st.panic)
        ELSE Panicked(st)

\* the loop of the CloseParen arm: complete until an OpenParen or the bottom
RECURSIVE CloseLoop(_)
CloseLoop(st) ==
    IF st.panic \/ st.op_stack = << >>
            \/ Last(st.op_stack).tok = "OpenParen"
    THEN st
    ELSE CloseLoop(complete_expr(st))

\* the CloseParen arm without the pop after its loop: the OpenParen stays
\* on the stack
PopOpen_Keep(st) == st

\* op_stack.pop() after the loop: pops the OpenParen, or nothing
PopOpen(st) ==
    IF st.op_stack = << >> THEN st
    ELSE Stacks(st.expr_stack, Front(st.op_stack), st.panic)

\* the loop of the BinOp arm with `>` for `>=`: an operator of equal
\* precedence stays on the stack
RECURSIVE BinOpLoop_RightAssoc(_, _)
BinOpLoop_RightAssoc(st, p) ==
    IF ~ st.panic /\ st.op_stack # << >>
        /\ (\/ Last(st.op_stack).tok = "BinOp"
                    /\ precedence(Last(st.op_stack).op) > p
            \/ Last(st.op_stack).tok = "UnOp")
    THEN BinOpLoop_RightAssoc(complete_expr(st), p)
    ELSE st

\* the loop of the BinOp arm without its UnOp case: a unary operator on top
\* of the stack stays there
RECURSIVE BinOpLoop_KeepUnary(_, _)
BinOpLoop_KeepUnary(st, p) ==
    IF ~ st.panic /\ st.op_stack # << >>
        /\ Last(st.op_stack).tok = "BinOp"
        /\ precedence(Last(st.op_stack).op) >= p
    THEN BinOpLoop_KeepUnary(complete_expr(st), p)
    ELSE st

\* the loop of the BinOp arm: complete the binary operators of precedence
\* at least p and the unary operators on top of the stack
RECURSIVE BinOpLoop(_, _)
BinOpLoop(st, p) ==
    IF ~ st.panic /\ st.op_stack # << >>
        /\ (\/ Last(st.op_stack).tok = "BinOp"
                    /\ precedence(Last(st.op_stack).op) >= p
            \/ Last(st.op_stack).tok = "UnOp")
    THEN BinOpLoop(complete_expr(st), p)
    ELSE st

Push(st, token) ==
    Stacks(st.expr_stack, Append(st.op_stack, token), st.panic)

\* one turn of `for token in tokens`
ShuntToken(st, token) ==
    CASE token.tok = "OpenParen" -> Push(st, token)
      [] token.tok = "CloseParen" -> PopOpen(CloseLoop(st))
      [] token.tok = "Term" ->
            Stacks(Append(st.expr_stack, Unwrap(token.expr)), st.op_stack,
                   st.panic)
      [] token.tok = "UnOp" -> Push(st, token)
      [] token.tok = "BinOp" ->
            Push(BinOpLoop(st, precedence(token.op)), token)

RECURSIVE ShuntTokens(_, _)
ShuntTokens(st, tokens) ==
    IF tokens = << >> \/ st.panic THEN st
    ELSE ShuntTokens(ShuntToken(st, Head(tokens)), Tail(tokens))

\* while op_stack.len() > 0
RECURSIVE Drain(_)
Drain(st) ==
    IF st.panic \/ st.op_stack = << >> THEN st ELSE Drain(complete_expr(st))

\* expr_stack.pop().unwrap(): None stands for a panic
PopResult(st) ==
    IF st.panic \/ st.expr_stack = << >> THEN None
    ELSE Some(Last(st.expr_stack))

shunting_yard(tokens) ==
    PopResult(Drain(ShuntTokens(Stacks(<< >>, << >>, FALSE), tokens)))

\* ------------------------------------------- ast/parse.rs: expressions

null_literal_expr_parser(i) ==
    Then(Trim(null_literal_parser(sp(i))), LAMBDA value :
    Done(value.rest, Literal(Unknown, << "n", "u", "l", "l" >>)))

\* format!("{}", value) of a bool
bool_literal_expr_parser(i) ==
    Then(Trim(bool_literal_parser(sp(i))), LAMBDA value :
    Done(value.rest,
         Literal(Bool, IF value.value THEN << "t", "r", "u", "e" >>
                       ELSE << "f", "a", "l", "s", "e" >>)))

string_literal_expr_parser(i) ==
    Then(Trim(string_literal_parser(sp(i))), LAMBDA value :
    Done(value.rest, Literal(Str(0), value.value)))

int_literal_expr_parser(i) ==
    Then(Trim(int_literal_parser(sp(i))), LAMBDA value :
    Done(value.rest, Literal(Int_, FormatI64(value.value))))

float_literal_expr_parser(i) ==
    Then(Trim(float_literal_parser(sp(i))), LAMBDA value :
    Done(value.rest, Literal(Float, value.value)))

literal_expr_parser(i) ==
    Or(null_literal_expr_parser(i),
    Or(bool_literal_expr_parser(i),
    Or(float_literal_expr_parser(i),
    Or(int_literal_expr_parser(i),
    Or(string_literal_expr_parser(i), Error)))))

\* impl FromStr for BinaryOperator: None stands for the Err
BinaryOperator_from_str(s) ==
    CASE s = << "*" >> -> Some("OpMul")
      [] s = << "/" >> -> Some("OpDiv")
      [] s = << "+" >> -> Some("OpAdd")
      [] s = << "-" >> -> Some("OpSub")
      [] s = << "=" >> -> Some("OpEq")
      [] s = << "!", "=" >> -> Some("OpNeq")
      [] s = << "<" >> -> Some("OpLt")
      [] s = << ">" >> -> Some("OpGt")
      [] s = << "<", "=" >> -> Some("OpLte")
      [] s = << ">", "=" >> -> Some("OpGte")
      [] s = << "i", "s" >> -> Some("OpIs")
      [] s = << "l", "i", "k", "e" >> -> Some("OpLike")
      [] s = << "i", "n" >> -> Some("OpIn")
      [] s = << "a", "n", "d" >> -> Some("OpAnd")
      [] s = << "o", "r" >> -> Some("OpOr")
      [] OTHER -> None

\* impl FromStr for UnaryOperator
UnaryOperator_from_str(s) ==
    IF s = << "n", "o", "t" >> THEN Some("OpNot") ELSE None

\* .unwrap() of what from_str or shunting_yard gave
unwrap(rest, parsed) ==
    IF IsSome(parsed) THEN Done(rest, Unwrap(parsed)) ELSE Panic

binop_parser(i) ==
    Then(Or(tag_no_case(i, << "a", "n", "d" >>),
         Or(tag_no_case(i, << "o", "r" >>),
         Or(tag(i, << "*" >>),
         Or(tag(i, << "/" >>),
         Or(tag(i, << "+" >>),
         Or(tag(i, << "-" >>),
         Or(tag(i, << "=" >>),
         Or(tag(i, << "!", "=" >>),
         Or(tag(i, << "<", "=" >>),
         Or(tag(i, << ">", "=" >>),
         Or(tag(i, << "<" >>),
         Or(tag(i, << ">" >>), Error)))))))))))),
         LAMBDA op : unwrap(op.rest, BinaryOperator_from_str(op.value)))

RECURSIVE expr_parser(_)
RECURSIVE term_parser(_)

paren_expr_parser(i) ==
    Then(Trim(char(sp(i), "(")), LAMBDA lparen :
    Then(Trim(expr_parser(lparen.rest)), LAMBDA expr :
    Then(Trim(char(expr.rest, ")")), LAMBDA rparen :
    Done(rparen.rest, expr.value))))

unop_expr_parser(i) ==
    Then(Trim(Or(tag_no_case(sp(i), << "n", "o", "t" >>), Error)), LAMBDA op :
    Then(Trim(term_parser(op.rest)), LAMBDA term :
    Then(unwrap(term.rest, UnaryOperator_from_str(op.value)), LAMBDA parsed :
    Done(parsed.rest, UnOpExpr(term.value, parsed.value)))))

identifier_parser(i) ==
    Then(identifier(i), LAMBDA id : Done(id.rest, Id(id.value, None)))

qualified_identifier_parser(i) ==
    Then(identifier(i), LAMBDA part1 :
    Then(char(part1.rest, "."), LAMBDA dot :
    Then(identifier(dot.rest), LAMBDA part2 :
    Done(part2.rest, Id(part2.value, Some(part1.value))))))

term_parser(i) ==
    Or(paren_expr_parser(i),
    Or(unop_expr_parser(i),
    Or(literal_expr_parser(i),
    Or(qualified_identifier_parser(i),
    Or(identifier_parser(i), Error)))))

\* fold_many0!(ws!(pair!(binop_parser, term_parser)), ..): pairs are folded
\* into terms until the pair parser fails or stops consuming
RECURSIVE fold_many0(_, _)
fold_many0(input, terms) ==
    With(Then(Trim(binop_parser(sp(input))), LAMBDA op :
         Then(Trim(term_parser(op.rest)), LAMBDA val :
         Done(val.rest, << op.value, val.value >>))),
         LAMBDA pair :
    IF pair.kind \in { "panic", "incomplete" } THEN pair
    ELSE IF IsDone(pair) /\ Len(pair.rest) < Len(input)
    THEN fold_many0(pair.rest,
                    terms \o << BinOp(pair.value[1]), Term(pair.value[2]) >>)
    ELSE Done(input, terms))

expr_parser(i) ==
    Then(Trim(term_parser(sp(i))), LAMBDA first :
    Then(Trim(fold_many0(first.rest, << Term(first.value) >>)), LAMBDA terms :
    unwrap(terms.rest, shunting_yard(terms.value))))

parse_expr(input) == parser_wrapper(expr_parser(input))

\* an unwrap inside the parser panicked: parse_expr does not return
parse_expr_panics(input) == expr_parser(input).kind = "panic"

\* ------------------------------------------------------------ the state

VARIABLES
    page_count,        \* PageTable.page_count: the capacity in pages
    page_map,          \* PageTable.page_map: page id -> slot
    page_lru,          \* PageTable.page_lru: idle pages, least recently used first
    reader_count,      \* PageTable.reader_count.active_count
    writer_count,      \* PageTable.writer_count.active_count
    reader_rx,         \* page ids posted by dropped read locks, not yet received
    writer_rx,         \* page ids posted by dropped write locks, not yet received
    pending_requests,  \* PageTable.pending_requests: page id -> queue of requests
    available_slots,   \* PageTable.available_slots
    slot_page,         \* slot -> the page it was last assigned to on a miss
    page_data,         \* WorkingMemory.page_data: what each slot's bytes hold
    held,              \* the PageLocks alive: delivered and not yet dropped (a bag)
    ret,               \* what the last call returned, if it was get_page
    panicked,          \* a call panicked
    files,             \* the file system: path -> bytes of the file, Absent or NoDir
    created,           \* the paths DbFile::create has written
    file_ret,          \* what the last call of DbFile returned
    ddl_ret,           \* the last call of Model::to_ddl or Model::from_ddl
    expr_ret,          \* the last call of shunting_yard or parse_expr
    cell               \* the PageTable of the cell-based variant, when one is built

\* the page cache
cache_vars ==
    << page_count, page_map, page_lru, reader_count, writer_count, reader_rx,
       writer_rx, pending_requests, available_slots, slot_page, page_data,
       held, ret, panicked, cell >>

\* the database files
file_vars == << files, created, file_ret >>

\* what is not the page cache
\* the language front end
lang_vars == << ddl_ret, expr_ret >>

other_vars == << file_vars, lang_vars >>

vars == << cache_vars, other_vars >>

\* the page ids callers use: one page more than the buffer holds
Pages == 0 .. page_count
Slots == 0 .. (page_count - 1)

Self ==
    [page_count |-> page_count,
     page_map |-> page_map,
     page_lru |-> page_lru,
     reader_count |-> reader_count,
     writer_count |-> writer_count,
     reader_rx |-> reader_rx,
     writer_rx |-> writer_rx,
     pending_requests |-> pending_requests,
     available_slots |-> available_slots,
     slot_page |-> slot_page,
     out |-> << >>,
     panicked |-> panicked]

SeqToBag(s) ==
    [x \in {s[i] : i \in DOMAIN s} |-> Cardinality({i \in DOMAIN s : s[i] = x})]

\* writer_count is read only through active() and `Some(n) if *n > 0`, and
\* pending_requests only through contains_key followed by a test of the
\* queue's length (can_grant_lock answers true for an empty queue as for
\* none): a zero entry of the one and an empty queue of the other are the
\* same as no entry, and are stored as no entry.
NonZero(count) == [k \in {x \in DOMAIN count : count[x] > 0} |-> count[k]]
NonEmpty(queues) == [k \in {x \in DOMAIN queues : queues[x] # << >>} |-> queues[k]]

\* the table after a call that left it as st; the locks the call sent are alive
Commit(st) ==
    /\ page_map' = st.page_map
    /\ page_lru' = st.page_lru
    /\ reader_count' = st.reader_count
    /\ writer_count' = NonZero(st.writer_count)
    /\ reader_rx' = st.reader_rx
    /\ writer_rx' = st.writer_rx
    /\ pending_requests' = NonEmpty(st.pending_requests)
    /\ available_slots' = st.available_slots
    /\ slot_page' = st.slot_page
    /\ held' = held (+) SeqToBag(SelectSeq(st.out,
                                  LAMBDA l : l.reply # ClosedChannel))
    /\ panicked' = st.panicked

RECURSIVE SumLen(_, _)
SumLen(m, keys) ==
    IF keys = {} THEN 0
    ELSE LET k == CHOOSE x \in keys : TRUE
         IN  Len(m[k]) + SumLen(m, keys \ {k})

Queued == SumLen(pending_requests, DOMAIN pending_requests)
Outstanding == BagCardinality(held) + Queued
MaxLocks == page_count + ExtraLocks

\* ret after a call other than get_page
Unit == [op |-> "unit", page |-> 0, result |-> None]

\* PageTable::new(size) (WorkingMemory::new(size) builds the table the same
\* way, and zeroed page_data)
NewTable(size) ==
    LET t == PageTable_new(size)
    IN  /\ page_count = t.page_count
        /\ page_map = t.page_map
        /\ page_lru = t.page_lru
        /\ reader_count = t.reader_count
        /\ writer_count = t.writer_count
        /\ reader_rx = t.reader_rx
        /\ writer_rx = t.writer_rx
        /\ pending_requests = t.pending_requests
        /\ available_slots = t.available_slots
        /\ slot_page = t.slot_page
        /\ page_data = [s \in 0 .. (t.page_count - 1) |-> None]
        /\ held = EmptyBag
        /\ ret = Unit
        /\ panicked = FALSE

\* no table of the cell-based variant
NoCell == [page_count |-> 0, page_map |-> EmptyMap, page_lru |-> << >>,
           ref_count |-> EmptyMap, available_slots |-> << >>,
           panicked |-> FALSE]

New(size) == NewTable(size) /\ cell = NoCell

\* file_ret before any call of DbFile
NoCall == [op |-> "none", path |-> 0, result |-> None]

\* no file is there and DbFile was not called
NoFiles ==
    /\ files = << >>
    /\ created = {}
    /\ file_ret = NoCall

\* the front end was not called
NoDdl ==
    [op |-> "none", model |-> None, text |-> << >>, result |-> Err,
     panic |-> FALSE]

NoExpr ==
    [op |-> "none", tokens |-> << >>, text |-> << >>, result |-> Err,
     panic |-> FALSE]

NoLang == ddl_ret = NoDdl /\ expr_ret = NoExpr

InitTable == New(TableSlots * PAGE_SIZE) /\ NoFiles /\ NoLang
InitMemory == New(MemorySlots * PAGE_SIZE) /\ NoFiles /\ NoLang

\* ---------------------------------------------------------- the actions

\* a call of the table is over: ret keeps the locks whose delivery failed
Called(st) ==
    /\ Commit(st)
    /\ ret' = [Unit EXCEPT !.result =
                    SelectSeq(st.out, LAMBDA l : l.reply = ClosedChannel)]

\* PageTable::request_lock(page_id, lock_type, channel)
RequestLock(page_id, lock_type, channel) ==
    /\ ~ panicked
    /\ Outstanding < MaxLocks
    /\ Called(request_lock(Self, page_id, lock_type, channel))
    /\ UNCHANGED << page_count, page_data, cell, other_vars >>

\* PageTable::tick()
Tick ==
    /\ ~ panicked
    /\ Called(tick(Self))
    /\ UNCHANGED << page_count, page_data, cell, other_vars >>

\* PageTable::contains_page(id)
ContainsPage(id) ==
    /\ ~ panicked
    /\ Called(contains_page(Self, id).st)
    /\ UNCHANGED << page_count, page_data, cell, other_vars >>

\* the caller has what get_page returned
Returned(g, page_id) ==
    /\ Commit([g.st EXCEPT !.out =
                 IF IsSome(g.lock)
                 THEN << [page_id |-> page_id, index |-> Unwrap(g.lock).index,
                          lock_type |-> "Read", reply |-> 0] >>
                 ELSE << >>])
    /\ page_data' = g.data
    /\ ret' = [op |-> "get_page", page |-> page_id,
               result |-> IF IsSome(g.lock)
                          THEN << Unwrap(g.lock).index, g.reads >>
                          ELSE None]

\* WorkingMemory::get_page(page_id, reader)
GetPage(page_id) ==
    /\ ~ panicked
    /\ Outstanding < MaxLocks
    /\ Returned(get_page(Self, page_data, page_id), page_id)
    /\ UNCHANGED << page_count, cell, other_vars >>

\* Drop for PageLock: the page id is posted on the channel of the lock's kind
DropLock(lock) ==
    /\ lock \in BagToSet(held)
    /\ held' = held (-) SetToBag({lock})
    /\ IF lock.lock_type = "Read"
       THEN /\ reader_rx' = Append(reader_rx, lock.page_id)
            /\ UNCHANGED writer_rx
       ELSE /\ writer_rx' = Append(writer_rx, lock.page_id)
            /\ UNCHANGED reader_rx
    /\ ret' = IF ret.op = "unit" THEN ret ELSE Unit
    /\ UNCHANGED << page_count, page_map, page_lru, reader_count, writer_count,
                    pending_requests, available_slots, slot_page, page_data,
                    panicked, cell, other_vars >>

NextTable ==
    \/ \E page_id \in Pages, lock_type \in LockTypes, channel \in Channels :
          RequestLock(page_id, lock_type, channel)
    \/ Tick
    \/ \E id \in Pages : ContainsPage(id)
    \/ \E lock \in BagToSet(held) : DropLock(lock)

\* the requests in the queues whose reply channel is closed
ClosedQueued ==
    SumLen([p \in DOMAIN pending_requests |->
               SelectSeq(pending_requests[p],
                         LAMBDA r : r.channel = ClosedChannel)],
           DOMAIN pending_requests)

\* request_lock by a caller who drops the receiver without waiting
RequestLockClosed(page_id, lock_type) ==
    /\ ClosedQueued < MaxClosed
    /\ RequestLock(page_id, lock_type, ClosedChannel)

\* the table with callers some of whom drop the receiver of their reply
\* channel
NextClosed ==
    \/ \E page_id \in Pages, lock_type \in LockTypes, channel \in Channels :
          RequestLock(page_id, lock_type, channel)
    \/ \E page_id \in 0 .. MaxClosedPageId, lock_type \in LockTypes :
          RequestLockClosed(page_id, lock_type)
    \/ Tick
    \/ \E lock \in BagToSet(held) : DropLock(lock)

\* PageTable::contains_page(id), with the answer kept in ret
Contains(id) ==
    /\ ~ panicked
    /\ Commit(contains_page(Self, id).st)
    /\ ret' = [op |-> "contains_page", page |-> id,
               result |-> contains_page(Self, id).result]
    /\ UNCHANGED << page_count, page_data, cell, other_vars >>

\* the table with callers that look at the answers of contains_page
NextQuery ==
    \/ \E page_id \in Pages, lock_type \in LockTypes, channel \in Channels :
          RequestLock(page_id, lock_type, channel)
    \/ Tick
    \/ \E id \in Pages : Contains(id)
    \/ \E lock \in BagToSet(held) : DropLock(lock)

NextMemory ==
    \/ \E page_id \in Pages : GetPage(page_id)
    \/ Tick
    \/ \E id \in Pages : ContainsPage(id)
    \/ \E lock \in BagToSet(held) : DropLock(lock)

\* ------------------------------------------- the two tables side by side
\* Both tables are built with the same size and get the same calls.  The
\* channel-based one is ticked before each call, as check_page_index of its
\* tests does; a lock on a page is one lock of each table, dropped together.

InitBoth ==
    /\ NewTable(MemorySlots * PAGE_SIZE)
    /\ cell = Cell_new(MemorySlots * PAGE_SIZE)
    /\ NoFiles
    /\ NoLang

\* what the two tables returned: << channel-based, cell-based >>
BothRet(op, page, a, b) == [op |-> op, page |-> page, result |-> << a, b >>]

\* tick then page_index(page_id, Read), and WorkingMemory::page_index(page_id)
PageIndexBoth(page_id) ==
    LET g == page_index(tick(Self), page_id, "Read")
        w == WorkingMemory_page_index(cell, page_id)
    IN  /\ ~ panicked
        /\ ~ cell.panicked
        /\ Outstanding < MaxLocks
        /\ Commit([g.st EXCEPT !.out =
                     IF IsSome(g.lock)
                     THEN << [page_id |-> page_id,
                              index |-> Unwrap(g.lock).index,
                              lock_type |-> "Read", reply |-> 0] >>
                     ELSE << >>])
        /\ cell' = w.t
        /\ ret' = BothRet("page_index", page_id,
                          IF IsSome(g.lock) THEN Some(Unwrap(g.lock).index)
                                            ELSE None,
                          w.index)
        /\ UNCHANGED << page_count, page_data, other_vars >>

\* tick then contains_page(id) of both tables
ContainsPageBoth(id) ==
    LET c == contains_page(tick(Self), id)
        w == Cell_contains_page(cell, id)
    IN  /\ ~ panicked
        /\ ~ cell.panicked
        /\ Commit(c.st)
        /\ cell' = w.t
        /\ ret' = BothRet("contains_page", id, c.result, w.result)
        /\ UNCHANGED << page_count, page_data, other_vars >>

\* Drop for PageLock posts the page id; Drop for LruPageLock calls
\* decr_ref_count at once
DropBoth(lock) ==
    /\ lock \in BagToSet(held)
    /\ ~ cell.panicked
    /\ held' = held (-) SetToBag({lock})
    /\ reader_rx' = Append(reader_rx, lock.page_id)
    /\ cell' = Cell_decr_ref_count(cell, lock.page_id)
    /\ ret' = Unit
    /\ UNCHANGED << page_count, page_map, page_lru, reader_count, writer_count,
                    writer_rx, pending_requests, available_slots, slot_page,
                    page_data, panicked, other_vars >>

NextBoth ==
    \/ \E page_id \in Pages : PageIndexBoth(page_id)
    \/ \E id \in Pages : ContainsPageBoth(id)
    \/ \E lock \in BagToSet(held) : DropBoth(lock)

\* ---------------------------------------------------------- DbFile
\* the paths callers pass, and the files that are there when the program
\* starts: none, an empty one, or one with a header as create lays it out
\* and some DbMetadata
Paths == 1 .. NumPaths
FileChoices(max) ==
    {Absent, NoDir, FileOf(<< >>)}
    \cup {FileOf(HeaderBuf([prev_page |-> 0, next_page |-> 0],
                           [first_free_page |-> f, last_page |-> l])) :
            f \in 1 .. max, l \in 1 .. max}

InitFile ==
    /\ New(0)
    /\ files \in [Paths -> FileChoices(MaxPageId)]
    /\ created = {}
    /\ file_ret = NoCall
    /\ NoLang

\* the caller has what create returned
Created(c, path) ==
    /\ files' = c.fs
    /\ created' = IF c.result = None THEN created ELSE created \cup {path}
    /\ file_ret' = [op |-> "create", path |-> path, result |-> c.result]

\* DbFile::create(name, path)
Create(path) ==
    /\ Created(create(files, path), path)
    /\ UNCHANGED << cache_vars, lang_vars >>

\* DbFile::open(name, path)
Open(path) ==
    /\ file_ret' = [op |-> "open", path |-> path, result |-> open(files, path)]
    /\ UNCHANGED << files, created, cache_vars, lang_vars >>

NextFile ==
    \/ \E path \in Paths : Create(path)
    \/ \E path \in Paths : Open(path)

SpecFile == InitFile /\ [][NextFile]_vars

\* ------------------------------------------------------------- the DDL
\* Schemas are drawn from bounded sets: value types nested TypeDepth deep
\* with the sizes 0 and MaxSize, tuples of at most MaxEntries columns
\* (MaxGraphEntries for the two schemas of a graph), named by position.

Sizes == { 0, MaxSize }

BaseTypes ==
    { Unknown, AutoId, Bool, Uint, Int_, Float } \cup { Str(n) : n \in Sizes }

RECURSIVE TypesOfDepth(_)
TypesOfDepth(d) ==
    IF d = 0 THEN BaseTypes
    ELSE BaseTypes
            \cup { Nullable(v) : v \in TypesOfDepth(d - 1) }
            \cup { Vector(MaxSize, v) : v \in TypesOfDepth(d - 1) }

ColumnNames ==
    << << "c", "o", "l", "_", "1" >>, << "B", "2", "x" >>, << "_", "c" >> >>

ModelName == << "t", "e", "s", "t", "_", "1" >>

Named(ts) == [k \in 1 .. Len(ts) |-> TupleEntry(ColumnNames[k], ts[k])]

TupleDefs(max) ==
    UNION { { Named(ts) : ts \in [1 .. len -> TypesOfDepth(TypeDepth)] } :
            len \in 0 .. max }

Models(entries, graph_entries) ==
    { Model(kind, ModelName, schema, << >>) :
        kind \in { "table", "geohash", "timeseries" },
        schema \in TupleDefs(entries) }
    \cup { Model("document", ModelName, << >>, << >>) }
    \cup { Model("graph", ModelName, node_schema, edge_schema) :
            node_schema \in TupleDefs(graph_entries),
            edge_schema \in TupleDefs(graph_entries) }

\* a model was built and the front end was not called
NewModel(m) ==
    [op |-> "new", model |-> Some(m), text |-> << >>, result |-> Err,
     panic |-> FALSE]

InitDdl ==
    /\ New(0)
    /\ NoFiles
    /\ ddl_ret \in { NewModel(m) : m \in Models(MaxEntries, MaxGraphEntries) }
    /\ expr_ret = NoExpr

\* Model::to_ddl
ToDdl ==
    /\ ddl_ret.op = "new"
    /\ ddl_ret' =
            IF ModelContainsUnknown(Unwrap(ddl_ret.model))
            THEN [ddl_ret EXCEPT !.op = "to_ddl", !.panic = TRUE]
            ELSE [ddl_ret EXCEPT !.op = "to_ddl",
                                 !.text = Model_to_ddl(Unwrap(ddl_ret.model))]
    /\ UNCHANGED << cache_vars, file_vars, expr_ret >>

\* Model::from_ddl of the text to_ddl returned
FromDdl ==
    /\ ddl_ret.op = "to_ddl"
    /\ ~ ddl_ret.panic
    /\ ddl_ret' = [ddl_ret EXCEPT
                        !.op = "from_ddl",
                        !.result = Model_from_ddl(ddl_ret.text),
                        !.panic = command_parser(ddl_ret.text).kind = "panic"]
    /\ UNCHANGED << cache_vars, file_vars, expr_ret >>

NextDdl ==
    \/ ToDdl
    \/ FromDdl

SpecDdl == InitDdl /\ [][NextDdl]_vars

\* ------------------------------------------------------------ the sizes
\* size_of is called on value types nested TypeDepth deep, with the string
\* sizes of StrSizes and vectors of VectorLen elements, and on tuples of at
\* most MaxEntries of them.

StrSizes == { 0, InlineSize, MAX_INLINE_STRING_LENGTH, LongSize }

SizedBaseTypes ==
    { Unknown, AutoId, Bool, Uint, Int_, Float } \cup { Str(n) : n \in StrSizes }

RECURSIVE SizedTypes(_)
SizedTypes(d) ==
    IF d = 0 THEN SizedBaseTypes
    ELSE SizedBaseTypes
            \cup { Nullable(v) : v \in SizedTypes(d - 1) }
            \cup { Vector(VectorLen, v) : v \in SizedTypes(d - 1) }

SizedTupleDefs(max) ==
    UNION { { Named(ts) : ts \in [1 .. len -> SizedTypes(TypeDepth)] } :
            len \in 1 .. max }

InitSize ==
    /\ New(0)
    /\ NoFiles
    /\ ddl_ret \in { NewModel(Model("table", ModelName, schema, << >>)) :
                        schema \in SizedTupleDefs(MaxEntries) }
    /\ expr_ret = NoExpr

\* the caller has the size, or the call panicked on an Unknown
Sized(op, unknown, size) ==
    ddl_ret' =
        IF unknown THEN [ddl_ret EXCEPT !.op = op, !.panic = TRUE]
        ELSE [ddl_ret EXCEPT !.op = op, !.result = Ok(size)]

\* ast::value_type::ValueType::size_of of the type of the first column
ValueTypeSizeOf ==
    /\ ddl_ret.op = "new"
    /\ Sized("ValueType::size_of",
             ContainsUnknown(Unwrap(ddl_ret.model).schema[1].value),
             IF ContainsUnknown(Unwrap(ddl_ret.model).schema[1].value) THEN 0
             ELSE ValueType_size_of(Unwrap(ddl_ret.model).schema[1].value))
    /\ UNCHANGED << cache_vars, file_vars, expr_ret >>

\* soupdb::value::ValueType::size_of of the type of the first column
SoupdbValueTypeSizeOf ==
    /\ ddl_ret.op = "new"
    /\ Sized("soupdb::ValueType::size_of",
             ContainsUnknown(Unwrap(ddl_ret.model).schema[1].value),
             IF ContainsUnknown(Unwrap(ddl_ret.model).schema[1].value) THEN 0
             ELSE soupdb_ValueType_size_of(Unwrap(ddl_ret.model).schema[1].value))
    /\ UNCHANGED << cache_vars, file_vars, expr_ret >>

\* TupleDef::size_of of the schema
TupleDefSizeOf ==
    /\ ddl_ret.op = "new"
    /\ Sized("TupleDef::size_of",
             TupleContainsUnknown(Unwrap(ddl_ret.model).schema),
             IF TupleContainsUnknown(Unwrap(ddl_ret.model).schema) THEN 0
             ELSE TupleDef_size_of(Unwrap(ddl_ret.model).schema))
    /\ UNCHANGED << cache_vars, file_vars, expr_ret >>

NextSize ==
    \/ ValueTypeSizeOf
    \/ SoupdbValueTypeSizeOf
    \/ TupleDefSizeOf

SpecSize == InitSize /\ [][NextSize]_vars

\* ------------------------------------------------------ the expressions
\* Token sequences are drawn from the well-formed infix sequences of at
\* most MaxTokens tokens: operands joined by binary operators, an operand
\* being a term, a parenthesised sequence or a unary operator before an
\* operand.  The k-th term of a sequence is the integer literal k.

Operators == BinaryOperators

RECURSIVE OperandsOfLen(_)
RECURSIVE InfixOfLen(_)

OperandsOfLen(n) ==
    IF n < 1 THEN {}
    ELSE IF n = 1 THEN { << Term(Literal(Int_, << >>)) >> }
    ELSE { << OpenParen >> \o e \o << CloseParen >> : e \in InfixOfLen(n - 2) }
            \cup { << UnOp("OpNot") >> \o t : t \in OperandsOfLen(n - 1) }

InfixOfLen(n) ==
    OperandsOfLen(n)
        \cup UNION { { e \o << BinOp(op) >> \o t :
                            e \in InfixOfLen(k), op \in Operators,
                            t \in OperandsOfLen(n - 1 - k) } :
                      k \in 1 .. n - 2 }

\* how many terms there are among the first k tokens
TermsUpTo(tokens, k) ==
    Cardinality({ j \in 1 .. k : tokens[j].tok = "Term" })

Numbered(tokens) ==
    [k \in 1 .. Len(tokens) |->
        IF tokens[k].tok = "Term"
        THEN Term(Literal(Int_, Decimal(TermsUpTo(tokens, k))))
        ELSE tokens[k]]

TokenSeqs(max) ==
    UNION { { Numbered(ts) : ts \in InfixOfLen(n) } : n \in 1 .. max }

\* the text of a binary operator
OpText(op) ==
    CASE op = "OpMul" -> << "*" >>
      [] op = "OpDiv" -> << "/" >>
      [] op = "OpAdd" -> << "+" >>
      [] op = "OpSub" -> << "-" >>
      [] op = "OpEq" -> << "=" >>
      [] op = "OpNeq" -> << "!", "=" >>
      [] op = "OpLt" -> << "<" >>
      [] op = "OpGt" -> << ">" >>
      [] op = "OpLte" -> << "<", "=" >>
      [] op = "OpGte" -> << ">", "=" >>
      [] op = "OpIs" -> << "i", "s" >>
      [] op = "OpLike" -> << "l", "i", "k", "e" >>
      [] op = "OpIn" -> << "i", "n" >>
      [] op = "OpAnd" -> << "a", "n", "d" >>
      [] op = "OpOr" -> << "o", "r" >>

TokenText(token) ==
    CASE token.tok = "OpenParen" -> << "(" >>
      [] token.tok = "CloseParen" -> << ")" >>
      [] token.tok = "Term" -> Unwrap(token.expr).value.value
      [] token.tok = "UnOp" -> << "n", "o", "t" >>
      [] token.tok = "BinOp" -> OpText(token.op)

\* the tokens written out with one space between them
RECURSIVE Text(_)
Text(tokens) ==
    IF Len(tokens) = 1 THEN TokenText(tokens[1])
    ELSE TokenText(Head(tokens)) \o << " " >> \o Text(Tail(tokens))

\* the letter cases the keywords of a text are written in, besides lower case
Casings == { "upper", "capital" }

Upper(c) ==
    IF c \in Range(LOWER_CASE)
    THEN UPPER_CASE[CHOOSE k \in 1 .. Len(LOWER_CASE) : LOWER_CASE[k] = c]
    ELSE c

\* the text with its words in upper case, or with a capital first letter
Cased(text, casing) ==
    [k \in 1 .. Len(text) |->
        IF casing = "upper" \/ k = 1 \/ text[k - 1] \notin Range(LOWER_CASE)
        THEN Upper(text[k])
        ELSE text[k]]

\* the digits the long literals of a text are made of
WideDigits == { "2", "9" }

\* the text with every digit of a literal replaced by as many copies of d
\* as u64::MAX has digits
RECURSIVE Widened(_, _)
Widened(text, d) ==
    IF text = << >> THEN << >>
    ELSE (IF Head(text) \in Range(Digits) THEN [k \in 1 .. Len(U64_MAX) |-> d]
          ELSE << Head(text) >>) \o Widened(Tail(text), d)

\* a token vector was built and neither function was called
NewTokens(tokens) ==
    [op |-> "new", tokens |-> tokens, text |-> << >>, result |-> Err,
     panic |-> FALSE]

InitExpr ==
    /\ New(0)
    /\ NoFiles
    /\ ddl_ret = NoDdl
    /\ expr_ret \in { NewTokens(ts) : ts \in TokenSeqs(MaxTokens) }

\* the caller has the expression, or the call panicked
Shunted(e) ==
    expr_ret' = [expr_ret EXCEPT !.op = "shunting_yard",
                                 !.result = IF IsSome(e) THEN Ok(Unwrap(e))
                                            ELSE Err,
                                 !.panic = ~ IsSome(e)]

\* shunting_yard(tokens)
ShuntingYard ==
    /\ expr_ret.op = "new"
    /\ Shunted(shunting_yard(expr_ret.tokens))
    /\ UNCHANGED << cache_vars, file_vars, ddl_ret >>

\* parse_expr of the tokens written out
ParseExpr ==
    /\ expr_ret.op = "new"
    /\ expr_ret' =
            [expr_ret EXCEPT !.op = "parse_expr",
                             !.text = Text(expr_ret.tokens),
                             !.result = parse_expr(Text(expr_ret.tokens)),
                             !.panic = parse_expr_panics(Text(expr_ret.tokens))]
    /\ UNCHANGED << cache_vars, file_vars, ddl_ret >>

\* parse_expr of the tokens written out with the keywords in another case
ParseExprCased(casing) ==
    /\ expr_ret.op = "new"
    /\ expr_ret' =
            [expr_ret EXCEPT
                !.op = "parse_expr_cased",
                !.text = Cased(Text(expr_ret.tokens), casing),
                !.result = parse_expr(Cased(Text(expr_ret.tokens), casing)),
                !.panic = parse_expr_panics(Cased(Text(expr_ret.tokens), casing))]
    /\ UNCHANGED << cache_vars, file_vars, ddl_ret >>

\* parse_expr of the tokens written out with long literals
ParseExprWide(d) ==
    /\ expr_ret.op = "new"
    /\ expr_ret' =
            [expr_ret EXCEPT
                !.op = "parse_expr_wide",
                !.text = Widened(Text(expr_ret.tokens), d),
                !.result = parse_expr(Widened(Text(expr_ret.tokens), d)),
                !.panic = parse_expr_panics(Widened(Text(expr_ret.tokens), d))]
    /\ UNCHANGED << cache_vars, file_vars, ddl_ret >>

NextExpr ==
    \/ ShuntingYard
    \/ ParseExpr
    \/ \E d \in WideDigits : ParseExprWide(d)
    \/ \E casing \in Casings : ParseExprCased(casing)

SpecExpr == InitExpr /\ [][NextExpr]_vars

SpecTable == InitTable /\ [][NextTable]_vars
SpecClosed == InitTable /\ [][NextClosed]_vars
SpecQuery == InitTable /\ [][NextQuery]_vars
SpecMemory == InitMemory /\ [][NextMemory]_vars
SpecBoth == InitBoth /\ [][NextBoth]_vars

\* ------------------------------------------------------------ properties

\* the queue of a page (none is an empty one)
Queue(p) == IF p \in DOMAIN pending_requests THEN pending_requests[p] ELSE << >>

\* The page occupies a slot: the slot it was given last has not been given
\* to another page since.
ResidentIn(st, p) ==
    /\ p \in DOMAIN st.page_map
    /\ st.page_map[p] \in DOMAIN st.slot_page
    /\ st.slot_page[st.page_map[p]] = p

Resident(p) == ResidentIn(Self, p)

\* locks alive, by page and kind
LocksOf(h, p, lock_type) ==
    {l \in BagToSet(h) : l.page_id = p /\ l.lock_type = lock_type}

LiveRead(p) == LocksOf(held, p, "Read") # {}
LiveWrite(p) == LocksOf(held, p, "Write") # {}
Pinned(p) == LiveRead(p) \/ LiveWrite(p)

RECURSIVE CopiesOf(_, _)
CopiesOf(h, locks) ==
    IF locks = {} THEN 0
    ELSE LET l == CHOOSE x \in locks : TRUE
         IN  CopiesIn(l, h) + CopiesOf(h, locks \ {l})

\* how many locks of a kind are alive on a page
LiveCount(h, p, lock_type) == CopiesOf(h, LocksOf(h, p, lock_type))

\* ----------------------------------------------------------------- C1
\* C1: in every state of the table driven through request_lock, tick and
\* contains_page, with locks dropped at any time, the writer count of every
\* page is 0 or 1, and the writer count and the reader count of a page are
\* never both positive.
C1_ReaderWriterExclusion ==
    \A id \in Pages :
        /\ active(writer_count, id) \in {0, 1}
        /\ ~ (active(writer_count, id) > 0 /\ active(reader_count, id) > 0)

\* a writer is counted on a page that has a request waiting, while another
\* page has a reader
C1_Witness ==
    \E id \in Pages :
        /\ active(writer_count, id) = 1
        /\ Queue(id) # << >>
        /\ \E q \in Pages : active(reader_count, q) > 0

\* ----------------------------------------------------------------- C2
\* C2: a page on which a lock is alive occupies the slot the lock carries:
\* the slot has not been given to another page, page_map still names it, and
\* contains_page answers true for the page, whatever was loaded meanwhile.
C2_PinnedNeverEvicted ==
    \A l \in BagToSet(held) :
        /\ Resident(l.page_id)
        /\ page_map[l.page_id] = l.index
        /\ contains_page(Self, l.page_id).result

\* a lock is alive on a page while the buffer is full and another page has
\* been evicted
C2_Witness ==
    \E l \in BagToSet(held) :
        /\ available_slots = << >>
        /\ \E q \in DOMAIN page_map : q # l.page_id /\ ~ Resident(q)
        /\ \E q \in Pages : q # l.page_id /\ Resident(q) /\ ~ Pinned(q)

\* ----------------------------------------------------------------- C3
\* the two parts of C3
C3_NoWriteWhileRead ==
    \A p \in Pages : ~ (LiveRead(p) /\ LiveWrite(p))

C3_Queued ==
    \A p \in Pages, ch \in Channels :
        (LiveRead(p) /\ RequestLock(p, "Write", ch)) =>
            /\ Queue(p)' = Append(Queue(p), [lock_type |-> "Write", channel |-> ch])
            /\ LiveCount(held', p, "Write") = 0
            /\ LiveCount(held', p, "Read") = LiveCount(held, p, "Read")

\* C3: a write lock and a read lock on the same page are never alive
\* together; and a request_lock(P, Write) made while a read lock on P is
\* alive joins the end of P's queue and delivers nothing on P.
C3_WriterWaitsForReaders == [] C3_NoWriteWhileRead /\ [][C3_Queued]_vars

\* a write request waits at the head of the queue of a page with a read
\* lock alive
C3_Witness ==
    \E p \in Pages :
        /\ LiveRead(p)
        /\ Queue(p) # << >>
        /\ Head(Queue(p)).lock_type = "Write"

\* ----------------------------------------------------------------- C4
HasWrite(q) == \E i \in DOMAIN q : q[i].lock_type = "Write"

FirstWrite(q) ==
    CHOOSE i \in DOMAIN q :
        /\ q[i].lock_type = "Write"
        /\ \A j \in 1 .. (i - 1) : q[j].lock_type # "Write"

\* the two parts of C4
C4_Queued ==
    \A p \in Pages, ch \in Channels :
        (LiveRead(p) /\ HasWrite(Queue(p)) /\ RequestLock(p, "Read", ch)) =>
            /\ Queue(p)' = Append(Queue(p), [lock_type |-> "Read", channel |-> ch])
            /\ LiveCount(held', p, "Read") = LiveCount(held, p, "Read")
            /\ LiveCount(held', p, "Write") = 0

C4_NoOvertaking ==
    \A p \in Pages :
        HasWrite(Queue(p)) =>
            LiveCount(held', p, "Read") - LiveCount(held, p, "Read")
                <= FirstWrite(Queue(p)) - 1

\* C4: a request_lock(P, Read) made while a write request is in P's queue
\* and a read lock on P is alive joins the end of the queue and delivers
\* nothing on P, although P has readers only; and no call delivers more
\* read locks on P than there are requests ahead of the first write request
\* of P's queue, so that a read request behind it is delivered after it.
C4_ReadersBehindQueuedWriter == [][C4_Queued /\ C4_NoOvertaking]_vars

\* a read request waits behind a write request on a page that has a read
\* lock alive and no writer
C4_Witness ==
    \E p \in Pages :
        /\ LiveRead(p)
        /\ active(writer_count, p) = 0
        /\ Len(Queue(p)) >= 2
        /\ Queue(p)[1].lock_type = "Write"
        /\ Queue(p)[2].lock_type = "Read"

\* ----------------------------------------------------------------- C5
\* the locks on p of a kind and reply channel that a step delivered
Delivered(p, lock_type, ch) ==
    CopiesOf(held', {l \in LocksOf(held', p, lock_type) : l.reply = ch})
    - CopiesOf(held, {l \in LocksOf(held, p, lock_type) : l.reply = ch})

\* how many of the first k requests of q are of a kind and reply channel
Popped(q, k, lock_type, ch) ==
    Cardinality({i \in 1 .. k : q[i] = [lock_type |-> lock_type, channel |-> ch]})

\* a call took some first requests of q, delivered one lock for each of
\* them, and left the others as the queue of p
FifoStep(p, q) ==
    \E k \in 0 .. Len(q) :
        /\ Queue(p)' = SubSeq(q, k + 1, Len(q))
        /\ \A lock_type \in LockTypes, ch \in Channels :
              Delivered(p, lock_type, ch) = Popped(q, k, lock_type, ch)

\* the locks alive on p
Load(h, p) == CopiesOf(h, {l \in BagToSet(h) : l.page_id = p})

\* what C5 says of one step
C5_Step ==
    \A p \in Pages :
        LET before == Load(held, p) + Len(Queue(p))
            after  == Load(held', p) + Len(Queue(p)')
        IN  CASE after = before + 1 ->
                   \E lock_type \in LockTypes, ch \in Channels :
                      /\ FifoStep(p, Append(Queue(p),
                                   [lock_type |-> lock_type, channel |-> ch]))
                      /\ RequestLock(p, lock_type, ch)
              [] after = before -> FifoStep(p, Queue(p))
              [] OTHER ->
                   /\ after = before - 1
                   /\ Queue(p)' = Queue(p)
                   /\ \E lock \in BagToSet(held) : DropLock(lock)

\* C5: the requests of a page are served in the order they were made.  A
\* call after which the page has one more lock or request than before is a
\* request_lock on the page; it delivers locks for a prefix of the page's
\* queue with its own request last, and leaves the rest queued in order.  A
\* call that leaves the number the same delivers locks for a prefix of the
\* queue.  A step that takes one away is the drop of a lock and leaves
\* the queue alone.
C5_FifoPerPage == [][C5_Step]_vars

\* two requests wait in the queue of a page a writer holds
C5_Witness ==
    \E p \in Pages :
        /\ LiveWrite(p)
        /\ Len(Queue(p)) >= 2
        /\ Queue(p)[1] # Queue(p)[2]

\* ----------------------------------------------------------------- C6
\* the step is get_page(p)
IsGetPage(p) == ret'.op = "get_page" /\ ret'.page = p /\ GetPage(p)

\* pages that had a slot and lost it
Evicted(p) == p \in DOMAIN page_map /\ ~ Resident(p)

\* what C6 says of one step
C6_Step ==
    \A p \in Pages :
        IsGetPage(p) =>
            IF Resident(p)
            THEN ret'.result # None /\ ret'.result[1] = page_map[p]
            ELSE IF available_slots # << >>
            THEN /\ ret'.result # None
                 /\ ret'.result[1] = page_count - Len(available_slots)
                 /\ \A s \in Slots : s < ret'.result[1] <=> s \in DOMAIN slot_page
            ELSE IF check_messages(Self).page_lru # << >>
            THEN LET lru == Head(check_messages(Self).page_lru)
                 IN  /\ ret'.result # None
                     /\ ret'.result[1] = lru.value
                     /\ ~ Pinned(lru.key)
                     /\ Resident(lru.key)
                     /\ ~ ResidentIn(Self', lru.key)
            ELSE ret'.result = None

\* C6: get_page of a page that is resident returns the slot the page has;
\* of a page that is not, while slots are free, the lowest free slot, which
\* is the number of slots given out so far (0, 1, 2, ... from an empty
\* buffer); of a page that is not, once no slot is free, the slot of the
\* least recently used page without a lock, which stops being resident.
C6_SlotAssignment == [][C6_Step]_vars

\* get_page has just loaded a page into the slot of a page it evicted, every
\* slot having been given out
C6_Witness ==
    /\ ret.op = "get_page"
    /\ ret.result # None
    /\ available_slots = << >>
    /\ \E q \in Pages : Evicted(q) /\ page_map[q] = ret.result[1]
    /\ Resident(ret.page)
    /\ page_map[ret.page] = ret.result[1]

\* ----------------------------------------------------------------- C7
\* no slot is free and every resident page has a lock alive
FullyPinned(p) ==
    /\ ~ Resident(p)
    /\ available_slots = << >>
    /\ \A q \in Pages : Resident(q) => Pinned(q)

\* what C7 says of one step
C7_Step == \A p \in Pages : IsGetPage(p) => (ret'.result = None <=> FullyPinned(p))

\* C7: get_page returns None exactly when the page is not resident, no slot
\* is free and every resident page has a lock alive; so it returns a lock
\* again as soon as one of those locks was dropped.
C7_NoneIffFullyPinned == [][C7_Step]_vars

\* get_page has just returned None, a lock being alive on every slot's page
C7_Witness ==
    /\ ret.op = "get_page"
    /\ ret.result = None
    /\ \A s \in Slots : s \in DOMAIN slot_page /\ Pinned(slot_page[s])

\* ----------------------------------------------------------------- C8
\* C8: contains_page(id) returns true exactly when the page occupies a slot
\* when the call returns: false for a page never loaded and for an evicted
\* one, true for a page with a lock and for a resident page without one.
C8_ContainsIffResident ==
    \A id \in Pages :
        contains_page(Self, id).result <=> ResidentIn(contains_page(Self, id).st, id)

\* a page was evicted and contains_page is false for it, another is locked
\* and a third one was never loaded
C8_Witness ==
    /\ \E q \in Pages : Evicted(q) /\ ~ contains_page(Self, q).result
    /\ \E q \in Pages : Pinned(q) /\ contains_page(Self, q).result
    /\ \E q \in Pages : ~ Pinned(q) /\ contains_page(Self, q).result

\* ----------------------------------------------------------------- C9
\* how often the last get_page ran the reader
Reads(r) == IF r.result = None THEN 0 ELSE r.result[2]

\* C9 as stated: get_page runs the reader exactly once when the page is not
\* resident, and not at all when it is.
C9_Original ==
    [][\A p \in Pages :
          IsGetPage(p) => Reads(ret') = IF Resident(p) THEN 0 ELSE 1]_vars

\* what C9 says of one step, a get_page that returns None set apart
C9_Step ==
    \A p \in Pages :
        IsGetPage(p) =>
            IF ~ Resident(p) /\ ret'.result # None
            THEN /\ Reads(ret') = 1
                 /\ page_data' = [page_data EXCEPT ![ret'.result[1]] = Some(p)]
            ELSE /\ Reads(ret') = 0
                 /\ page_data' = page_data

\* C9: get_page runs the reader exactly once, on the slot it returns, when
\* the page is not resident and a lock is returned; it does not run it when
\* the page is resident, nor when it returns None, and then leaves page_data
\* as it was.
C9_FillOnLoadedMiss == [][C9_Step]_vars

\* get_page has just run the reader on the slot of the page it returned,
\* while another slot holds what an earlier get_page read
C9_Witness ==
    /\ ret.op = "get_page"
    /\ Reads(ret) = 1
    /\ page_data[ret.result[1]] = Some(ret.page)
    /\ \E s \in Slots : s # ret.result[1] /\ page_data[s] # None

\* ---------------------------------------------------------------- C10
\* the grant condition of a request: the page is resident or can be given a
\* slot, has no writer, and for a write request no reader
Feasible(p, lock_type) ==
    /\ Resident(p) \/ available_slots # << >> \/ page_lru # << >>
    /\ active(writer_count, p) = 0
    /\ lock_type = "Write" => active(reader_count, p) = 0

\* C10: once every release has been received by a call of the table, no
\* request is left at the head of a queue with its grant condition
\* satisfied.
C10_NoFeasibleRequestWaits ==
    (reader_rx = << >> /\ writer_rx = << >>) =>
        \A p \in DOMAIN pending_requests :
            ~ Feasible(p, Head(pending_requests[p]).lock_type)

\* ---------------------------------------------------------------- C11
\* the code's own notion of a page in the buffer: in the LRU or counted
Contained(p) == _contains_page(Self, p)

\* C11: a page id has an entry in page_map exactly when it is in the LRU or
\* has a positive reader or writer count.
C11_MapIffContained ==
    \A p \in Pages : p \in DOMAIN page_map <=> Contained(p)

\* ---------------------------------------------------------------- C12
\* C12: no two distinct page ids have the same slot index in page_map.
C12_MapInjective ==
    \A p, q \in DOMAIN page_map : p # q => page_map[p] # page_map[q]

\* ---------------------------------------------------------------- C13
\* C13: a page is in the LRU exactly when it occupies a slot and its reader
\* count and writer count are both zero; the LRU then records the slot the
\* page occupies, so that the eviction candidates are the resident pages
\* without counts and no others.
C13_LruIffIdleResident ==
    \A p \in Pages :
        /\ LruContains(page_lru, p) <=>
              (Resident(p) /\ active(reader_count, p) = 0
                           /\ active(writer_count, p) = 0)
        /\ LruContains(page_lru, p) => LruValue(page_lru, p) = page_map[p]

\* one page is in the LRU, one is counted and one was evicted
C13_Witness ==
    /\ \E p \in Pages : LruContains(page_lru, p)
    /\ \E p \in Pages : active(reader_count, p) + active(writer_count, p) > 0
    /\ \E p \in Pages : Evicted(p) /\ ~ LruContains(page_lru, p)

\* ---------------------------------------------------------------- C14
\* the pages in the LRU and the pages with a positive count
InLru == {p \in Pages : LruContains(page_lru, p)}
Counted == {p \in Pages : active(reader_count, p) > 0 \/ active(writer_count, p) > 0}

\* C14: the number of pages in the LRU plus the number of pages with a
\* positive reader or writer count is at most page_count, the capacity
\* divided by PAGE_SIZE and rounded down.
C14_AtMostCapacity ==
    Cardinality(InLru) + Cardinality(Counted) <= page_count

\* the buffer is full, with pages of both kinds, after an eviction
C14_Witness ==
    /\ Cardinality(InLru) + Cardinality(Counted) = page_count
    /\ InLru # {}
    /\ Counted # {}
    /\ \E p \in Pages : Evicted(p)

\* ---------------------------------------------------------------- C15
\* what C15 says of one step
C15_Step ==
    \A p \in Pages :
        /\ (Resident(p) /\ ResidentIn(Self', p)) =>
              /\ page_map'[p] = page_map[p]
              /\ page_data'[page_map[p]] = page_data[page_map[p]]
        /\ (Resident(p) /\ IsGetPage(p)) =>
              /\ ret'.result # None
              /\ page_data'[ret'.result[1]] = Some(p)
              /\ page_data' = page_data

\* C15: the slot of a resident page holds what the reader wrote at the
\* page's miss; while the page stays resident no step changes its slot or
\* the slot's bytes, and get_page of it returns that slot without writing.
C15_ContentPreserved ==
    /\ [](\A p \in Pages : Resident(p) => page_data[page_map[p]] = Some(p))
    /\ [][C15_Step]_vars

\* get_page has just returned a resident page without running the reader,
\* after a page was evicted
C15_Witness ==
    /\ ret.op = "get_page"
    /\ ret.result # None
    /\ Reads(ret) = 0
    /\ page_data[ret.result[1]] = Some(ret.page)
    /\ \E q \in Pages : Evicted(q)

\* ---------------------------------------------------------------- C16
\* the file has the layout C16 gives: a u64 of value 0 or 1 is, in
\* little-endian order, that byte followed by seven zero bytes
CreatedLayout(b) ==
    /\ Len(b) = 2 * PAGE_SIZE
    /\ SubSeq(b, 1, 8) = << 0, 0, 0, 0, 0, 0, 0, 0 >>
    /\ SubSeq(b, 9, 16) = << 0, 0, 0, 0, 0, 0, 0, 0 >>
    /\ SubSeq(b, 17, 24) = << 1, 0, 0, 0, 0, 0, 0, 0 >>
    /\ SubSeq(b, 25, 32) = << 1, 0, 0, 0, 0, 0, 0, 0 >>
    /\ \A i \in 1 .. 16 : b[PAGE_SIZE + i] = 0

\* C16: DbFile::create on a path that can hold a file returns the DbFile
\* with DbMetadata {1, 1} and leaves a file of exactly 2 * PAGE_SIZE bytes:
\* bytes [0..16) are the little-endian PageMetadata {0, 0}, bytes [16..32)
\* the little-endian DbMetadata {first_free_page 1, last_page 1}, and the
\* first 16 bytes of page 1 are zero.
C16_CreateLayout ==
    (file_ret.op = "create" /\ files[file_ret.path] # NoDir) =>
        /\ file_ret.result = Some([first_free_page |-> 1, last_page |-> 1])
        /\ files[file_ret.path].kind = "file"
        /\ CreatedLayout(files[file_ret.path].bytes)

\* create has just replaced a file, another file with another header being
\* there
C16_Witness ==
    /\ file_ret.op = "create"
    /\ file_ret.result # None
    /\ file_ret.path \in created
    /\ \E q \in Paths :
          /\ q # file_ret.path
          /\ files[q].kind = "file"
          /\ files[q] # files[file_ret.path]

\* ---------------------------------------------------------------- C17
\* C17: DbFile::open of a file that DbFile::create has written returns a
\* DbFile whose DbMetadata is {first_free_page 1, last_page 1}.
C17_OpenRoundTrip ==
    (file_ret.op = "open" /\ file_ret.path \in created) =>
        file_ret.result = Some([first_free_page |-> 1, last_page |-> 1])

\* ---------------------------------------------------------------- C18
\* C18: DDL round trip: for every model (table, document, geohash, graph,
\* timeseries) whose schemas hold no Unknown, AutoId included,
\* Model::from_ddl of the text Model::to_ddl produced is Ok and is a model
\* structurally equal to the one rendered, so that rendering it again gives
\* the same text.
C18_DdlRoundTrip ==
    ddl_ret.op = "from_ddl" =>
        /\ ddl_ret.result = Ok(Unwrap(ddl_ret.model))
        /\ Model_to_ddl(Unwrap(ddl_ret.result.value)) = ddl_ret.text

\* ---------------------------------------------------------------- C19
\* the precedence classes the claim names
Class(op) ==
    CASE op \in { "OpMul", "OpDiv" } -> 5
      [] op \in { "OpAdd", "OpSub" } -> 4
      [] op \in { "OpAnd", "OpOr" } -> 2
      [] OTHER -> 3

\* the binary operators binop_parser has a spelling for
Written(tokens) ==
    \A k \in 1 .. Len(tokens) :
        tokens[k].tok = "BinOp" => tokens[k].op \notin { "OpIs", "OpLike", "OpIn" }

\* terms, binary operators and parentheses only
Infix(tokens) == \A k \in 1 .. Len(tokens) : tokens[k].tok # "UnOp"

ParenDepth(tokens, k) ==
    Cardinality({ j \in 1 .. k : tokens[j].tok = "OpenParen" })
        - Cardinality({ j \in 1 .. k : tokens[j].tok = "CloseParen" })

\* the binary operators outside every pair of parentheses
TopOps(tokens) ==
    { k \in 1 .. Len(tokens) :
        tokens[k].tok = "BinOp" /\ ParenDepth(tokens, k) = 0 }

\* e groups the infix sequence by precedence: its root is an operator
\* outside the parentheses that no other such operator is below in class,
\* its operands group what is left and right of it; a sequence wholly in
\* parentheses groups as what is inside; a term is itself
RECURSIVE Grouped(_, _)
Grouped(tokens, e) ==
    IF TopOps(tokens) # {}
    THEN /\ e.node = "BinOp"
         /\ \E k \in TopOps(tokens) :
                /\ \A j \in TopOps(tokens) :
                        Class(tokens[j].op) >= Class(tokens[k].op)
                /\ e.op = tokens[k].op
                /\ Grouped(SubSeq(tokens, 1, k - 1), e.kids[1])
                /\ Grouped(SubSeq(tokens, k + 1, Len(tokens)), e.kids[2])
    ELSE IF Head(tokens).tok = "OpenParen"
    THEN Grouped(SubSeq(tokens, 2, Len(tokens) - 1), e)
    ELSE tokens = << Term(e) >>

\* C19: operator precedence: for every infix sequence of terms, binary
\* operators and parentheses, shunting_yard on the tokens and parse_expr on
\* the text (of the operators it has a spelling for) return a tree in which an
\* operator of a higher class (multiplicative 5 > additive 4 > comparison 3
\* > and/or 2) has bound its operands before an adjacent operator of a lower
\* class, and a parenthesised sub-sequence is one operand.
C19_PrecedenceGroups ==
    /\ (expr_ret.op = "shunting_yard" /\ Infix(expr_ret.tokens)) =>
            /\ expr_ret.result.ok
            /\ Grouped(expr_ret.tokens, Unwrap(expr_ret.result.value))
    /\ (expr_ret.op = "parse_expr" /\ Infix(expr_ret.tokens)
            /\ Written(expr_ret.tokens)) =>
            /\ expr_ret.result.ok
            /\ Grouped(expr_ret.tokens, Unwrap(expr_ret.result.value))

IntLiteral(k) == Literal(Int_, Decimal(k))

\* parse_expr("1 + 2 * 3") has returned BinOp(+, 1, BinOp(*, 2, 3))
C19_Witness ==
    /\ expr_ret.op = "parse_expr"
    /\ expr_ret.text = << "1", " ", "+", " ", "2", " ", "*", " ", "3" >>
    /\ expr_ret.result =
            Ok(BinOpExpr(IntLiteral(1),
                         BinOpExpr(IntLiteral(2), IntLiteral(3), "OpMul"),
                         "OpAdd"))

\* ---------------------------------------------------------------- C20
\* terms and binary operators of one precedence class, no parentheses
Chain(tokens) ==
    /\ \A k \in 1 .. Len(tokens) : tokens[k].tok \in { "Term", "BinOp" }
    /\ \A j, k \in 1 .. Len(tokens) :
            (tokens[j].tok = "BinOp" /\ tokens[k].tok = "BinOp") =>
                Class(tokens[j].op) = Class(tokens[k].op)

\* the left-nested tree of a chain: the last operator is the root, its
\* right operand the last term
RECURSIVE LeftNested(_)
LeftNested(tokens) ==
    IF Len(tokens) = 1 THEN Unwrap(tokens[1].expr)
    ELSE BinOpExpr(LeftNested(SubSeq(tokens, 1, Len(tokens) - 2)),
                   Unwrap(tokens[Len(tokens)].expr),
                   tokens[Len(tokens) - 1].op)

\* C20: left associativity: for every chain of binary operators of equal
\* precedence, shunting_yard (called on the tokens, or by parse_expr on the
\* text) returns the left-nested tree: a op1 b op2 c becomes
\* BinOp(op2, BinOp(op1, a, b), c).
C20_LeftAssociative ==
    (/\ expr_ret.op \in { "shunting_yard", "parse_expr" }
     /\ Chain(expr_ret.tokens)
     /\ expr_ret.op = "parse_expr" => Written(expr_ret.tokens)) =>
        expr_ret.result = Ok(LeftNested(expr_ret.tokens))

\* 1 + 2 - 3 has become BinOp(-, BinOp(+, 1, 2), 3)
C20_Witness ==
    /\ expr_ret.op = "shunting_yard"
    /\ expr_ret.tokens =
            << Term(IntLiteral(1)), BinOp("OpAdd"), Term(IntLiteral(2)),
               BinOp("OpSub"), Term(IntLiteral(3)) >>
    /\ expr_ret.result =
            Ok(BinOpExpr(BinOpExpr(IntLiteral(1), IntLiteral(2), "OpAdd"),
                         IntLiteral(3), "OpSub"))

\* C21: the keywords and, or and not written in any letter case give the
\* same expression as in lower case: parse_expr of the text with its keywords
\* in upper case or capitalised returns what parse_expr of the lower-case
\* text returns, and does not panic
C21_KeywordCase ==
    expr_ret.op = "parse_expr_cased"
        => /\ ~ expr_ret.panic
           /\ expr_ret.result = parse_expr(Text(expr_ret.tokens))

\* parse_expr("NOT 1 AND 2") returns BinOp(AND, UnOp(NOT, 1), 2)
C21_NotAnd ==
    expr_ret.text = << "N", "O", "T", " ", "1", " ", "A", "N", "D", " ", "2" >>
        => expr_ret.result
            = Ok(BinOpExpr(UnOpExpr(IntLiteral(1), "OpNot"), IntLiteral(2),
                           "OpAnd"))
\* C22: the parser never aborts: for every input text parse_expr (and
\* parse_command, parse_ddl) returns a parsed value or a ParseError, and no
\* input makes it panic
C22_ParserNeverPanics ==
    expr_ret.op \in { "parse_expr", "parse_expr_cased", "parse_expr_wide" }
        => ~ expr_ret.panic

\* the long literal alone is what panics: parse_expr of a text in lower
\* case with short literals returns
C22_ShortLowerCaseReturns == expr_ret.op = "parse_expr" => ~ expr_ret.panic
\* C23: size_of is the documented function of the value type in every
\* variant of the value-type code: Bool 1; Uint, Int, Float, AutoId 8;
\* Str(0) 10; Str(n) min(n, 256); Nullable(T) size_of(T) + 1;
\* Vector(n, T) n * size_of(T); a tuple the sum of its fields
RECURSIVE DocumentedSize(_)
DocumentedSize(t) ==
    CASE t.tag = "Bool" -> 1
      [] t.tag \in { "Uint", "Int", "Float", "AutoId" } -> 8
      [] t.tag = "Str" /\ t.n = 0 -> 10
      [] t.tag = "Str" /\ t.n > 0 -> IF t.n < 256 THEN t.n ELSE 256
      [] t.tag = "Nullable" -> DocumentedSize(Unwrap(t.of)) + 1
      [] t.tag = "Vector" -> t.n * DocumentedSize(Unwrap(t.of))

RECURSIVE DocumentedSum(_)
DocumentedSum(v) ==
    IF v = << >> THEN 0
    ELSE DocumentedSize(Head(v).value) + DocumentedSum(Tail(v))

C23_SizeOf ==
    /\ ddl_ret.op \in { "ValueType::size_of", "soupdb::ValueType::size_of" }
            /\ ~ ddl_ret.panic
        => ddl_ret.result
                = Ok(DocumentedSize(Unwrap(ddl_ret.model).schema[1].value))
    /\ ddl_ret.op = "TupleDef::size_of" /\ ~ ddl_ret.panic
        => ddl_ret.result = Ok(DocumentedSum(Unwrap(ddl_ret.model).schema))

\* the variant of ast/value_type.rs and the tuples built on it follow the
\* documented function
C23_AstSizeOf ==
    /\ ddl_ret.op = "ValueType::size_of" /\ ~ ddl_ret.panic
        => ddl_ret.result
                = Ok(DocumentedSize(Unwrap(ddl_ret.model).schema[1].value))
    /\ ddl_ret.op = "TupleDef::size_of" /\ ~ ddl_ret.panic
        => ddl_ret.result = Ok(DocumentedSum(Unwrap(ddl_ret.model).schema))

\* the variant of soupdb/value.rs differs from the documented function on
\* types that hold a Str(0) only
RECURSIVE HoldsOffPage(_)
HoldsOffPage(t) ==
    \/ t.tag = "Str" /\ t.n = 0
    \/ IsSome(t.of) /\ HoldsOffPage(Unwrap(t.of))

C23_SoupdbSizeOf ==
    ddl_ret.op = "soupdb::ValueType::size_of" /\ ~ ddl_ret.panic
            /\ ~ HoldsOffPage(Unwrap(ddl_ret.model).schema[1].value)
        => ddl_ret.result
                = Ok(DocumentedSize(Unwrap(ddl_ret.model).schema[1].value))
\* how the last call of DbFile ended for its caller.  create and open
\* return Ok(DbFile) and nothing else (dbfile.rs 90, 109): a call without a
\* result did not return an Err, it panicked
FileOutcome == IF file_ret.result # None THEN "Ok" ELSE "panic"

\* C24: failures of the file layer are reported as error values: create on
\* a path that cannot be opened for writing, open on a path that cannot be
\* opened for reading, and open of a file whose page read comes up short,
\* return an error to the caller
C24_FileErrorsReturned ==
    /\ file_ret.op = "create" /\ files[file_ret.path] = NoDir
        => FileOutcome = "Err"
    /\ file_ret.op = "open" /\ files[file_ret.path].kind # "file"
        => FileOutcome = "Err"
    /\ file_ret.op = "open" /\ files[file_ret.path].kind = "file"
            /\ Len(files[file_ret.path].bytes) < db_header_len
        => FileOutcome = "Err"

\* every call that meets one of those failures panics
C24_FileErrorsPanic ==
    \/ file_ret.op = "create" /\ files[file_ret.path] = NoDir
    \/ file_ret.op = "open" /\ files[file_ret.path].kind # "file"
    \/ file_ret.op = "open" /\ files[file_ret.path].kind = "file"
            /\ Len(files[file_ret.path].bytes) < db_header_len
    => FileOutcome = "panic"
\* ---------------------------------------------------------------- C25
\* every release was received: the counts are those of the locks alive
Drained == reader_rx = << >> /\ writer_rx = << >>

\* a slot can be had for a page that is not resident
SlotForLoad == available_slots # << >> \/ page_lru # << >>

\* a step is a request_lock on p that delivered a lock for every request
\* of p's queue and for the one it made
GrantedNew(p) ==
    /\ Load(held', p) = Load(held, p) + Len(Queue(p)) + 1
    /\ Queue(p)' = << >>

\* the read grant rule as C25 states it, on the state the request is made in
ReadRule(p) ==
    /\ active(writer_count, p) = 0
    /\ Queue(p) = << >> \/ Head(Queue(p)).lock_type = "Read"
    /\ Resident(p) \/ SlotForLoad

C25_Original_Step ==
    \A p \in Pages, ch \in Channels :
        (Drained /\ RequestLock(p, "Read", ch)) => (GrantedNew(p) <=> ReadRule(p))

\* C25 as stated: a read request on P is granted if and only if P has no
\* writer, P's queue is empty or its head is a read request, and P is
\* resident or a slot is available for load
C25_Original == [][C25_Original_Step]_vars
C25_ReadsAhead_Step ==
    \A p \in Pages, ch \in Channels :
        (Drained /\ ~ HasWrite(Queue(p)) /\ RequestLock(p, "Read", ch))
            => (GrantedNew(p) <=> ReadRule(p))

\* with read requests alone ahead of it, a read request made when every
\* release was received is granted exactly when the rule of C25 holds
C25_ReadsAhead == [][C25_ReadsAhead_Step]_vars
\* read as a rule for the request at the head of a queue: once every
\* release was received, no read request is left at the head of the queue
\* of a page that has no writer and is resident or can be given a slot
C25_HeadGranted ==
    Drained =>
        \A p \in DOMAIN pending_requests :
            Head(pending_requests[p]).lock_type = "Read"
                => ~ (active(writer_count, p) = 0 /\ (Resident(p) \/ SlotForLoad))
\* ---------------------------------------------------------------- C26
\* the write grant rule as C26 states it
WriteRule(p) ==
    /\ active(writer_count, p) = 0
    /\ active(reader_count, p) = 0
    /\ Resident(p) \/ SlotForLoad

\* C26: a write request on P is granted if and only if P has no writer
\* and no reader and is resident or can be given a slot; in particular,
\* once every release was received, no write request is left at the head
\* of the queue of a resident page with both counts zero, whether or not a
\* free slot or another page to evict exists
C26_HeadWriteGranted ==
    Drained =>
        \A p \in DOMAIN pending_requests :
            Head(pending_requests[p]).lock_type = "Write"
                => ~ (/\ active(writer_count, p) = 0
                      /\ active(reader_count, p) = 0
                      /\ Resident(p))

C26_EmptyQueue_Step ==
    \A p \in Pages, ch \in Channels :
        (Drained /\ Queue(p) = << >> /\ RequestLock(p, "Write", ch))
            => (GrantedNew(p) <=> WriteRule(p))

\* a write request made on a page without queue, when every release was
\* received, is granted exactly when the rule of C26 holds
C26_EmptyQueue == [][C26_EmptyQueue_Step]_vars
\* ---------------------------------------------------------------- C27
\* the last lock on a resident page was dropped, its release has not been
\* received yet, and requests wait in the page's queue
HandOff(p) ==
    /\ Queue(p) # << >>
    /\ Resident(p)
    /\ ~ Pinned(p)
    /\ p \in Range(reader_rx) \cup Range(writer_rx)

C27_Step ==
    \A p \in Pages :
        (HandOff(p) /\ Load(held', p) > 0) =>
            /\ \A l \in BagToSet(held') :
                    l.page_id = p => l.index = page_map[p]
            /\ Outstanding' = Outstanding =>
                    /\ available_slots' = available_slots
                    /\ \A q \in Pages \ {p} : Resident(q) => Resident(q)'

\* C27: release keeps the slot.  When a call receives the release that
\* brings both counts of a resident page to zero and grants a request of
\* the page's queue, the lock carries the slot the page occupied; and when
\* the call makes no request of its own, no free slot is consumed and no
\* other page loses its slot
C27_ReleaseKeepsSlot == [][C27_Step]_vars
\* ---------------------------------------------------------------- C28
\* a write request is at the head of p's queue, p has no writer, and the
\* releases of all its read locks wait to be received
WriterNext(p) ==
    /\ Queue(p) # << >>
    /\ Head(Queue(p)).lock_type = "Write"
    /\ active(writer_count, p) = 0
    /\ ~ Pinned(p)
    /\ p \in Range(reader_rx)

\* a call received every release
Drains == reader_rx' = << >> /\ writer_rx' = << >> /\ ~ panicked'

C28_Step ==
    \A p \in Pages :
        (WriterNext(p) /\ Drains) => LiveCount(held', p, "Write") = 1

\* C28: hand-off to a queued writer.  Whenever a write request is at the
\* head of P's queue, P has no writer and a call receives the releases that
\* bring P's reader count to 0, that call delivers the write lock, in every
\* state of the buffer, all other slots pinned included
C28_HandOffToWriter == [][C28_Step]_vars

C28_Loadable_Step ==
    \A p \in Pages :
        (WriterNext(p) /\ SlotForLoad /\ Drains)
            => LiveCount(held', p, "Write") = 1

\* the hand-off takes place whenever a free slot or a page to evict exists
C28_HandOffWhenLoadable == [][C28_Loadable_Step]_vars
\* ---------------------------------------------------------------- C29
\* the counts of every page are those of the locks alive on it
CountsAreLive(h) ==
    \A p \in Pages :
        /\ active(reader_count, p) = LiveCount(h, p, "Read")
        /\ active(writer_count, p) = LiveCount(h, p, "Write")

\* a step that drops no lock is a call of contains_page, tick or
\* request_lock
TableCall == BagCardinality(held') >= BagCardinality(held)

C29_Step ==
    /\ (TableCall /\ ~ panicked') => (Drained /\ CountsAreLive(held))'
    /\ \A p \in Pages :
          Load(held', p) + Len(Queue(p)') = Load(held, p) + Len(Queue(p)) + 1
              => \E lock_type \in LockTypes, ch \in Channels :
                    FifoStep(p, Append(Queue(p),
                                [lock_type |-> lock_type, channel |-> ch]))

\* C29: releases are observed before requests.  Every call of
\* contains_page, tick and request_lock receives every release before it
\* does anything else: after the call no release is waiting and the counts
\* of every page are those of the locks alive, the lock the call granted
\* included, so a lock dropped before request_lock(P, K) is not counted
\* when the request is evaluated; and the requests queued earlier on P are
\* attempted before the new one, which is granted only after all of them
C29_ReleasesBeforeRequests == [][C29_Step]_vars

\* a read lock on a page was dropped, its release was received, and a
\* write lock on the page was granted after it
C29_Witness ==
    \E p \in Pages :
        /\ p \in DOMAIN reader_count
        /\ reader_count[p] = 0
        /\ LiveWrite(p)
        /\ Drained

\* no call of the table panics
C29_NoPanic == ~ panicked

\* ---------------------------------------------------------------- C30
\* the locks of the last call of the table whose delivery failed
Undelivered == IF ret.op = "unit" THEN Range(ret.result) ELSE {}
UndeliveredOn(p) == {l \in Undelivered : l.page_id = p}

\* the release of an undelivered lock on p waits to be received
ReleaseWaits(p) ==
    \E l \in UndeliveredOn(p) :
        p \in Range(IF l.lock_type = "Read" THEN reader_rx ELSE writer_rx)

\* the releases of a page waiting on a channel
InFlight(rx, p) == Len(SelectSeq(rx, LAMBDA id : id = p))

\* the counts of p are those of the locks alive on it and of the releases
\* not received yet
CountsOf(p) ==
    /\ active(reader_count, p) = LiveCount(held, p, "Read") + InFlight(reader_rx, p)
    /\ active(writer_count, p) = LiveCount(held, p, "Write") + InFlight(writer_rx, p)

\* p is resident, in the LRU, and counted by nobody
Idle(p) ==
    /\ Resident(p)
    /\ p \in InLru
    /\ active(reader_count, p) = 0
    /\ active(writer_count, p) = 0

\* the call granted a lock on another page, delivered or not, in the slot
\* p had last
GaveSlotAway(p) ==
    \/ \E l \in BagToSet(held') :
          /\ CopiesIn(l, held') > CopiesIn(l, held)
          /\ l.page_id # p
          /\ l.index = page_map'[p]
    \/ \E l \in Undelivered' :
          /\ l.page_id # p
          /\ l.index = page_map'[p]

\* after the call that receives the release of an undelivered lock on p:
\* the counts are those of the locks alive; when no lock is alive on p it
\* is idle, unless the same call went on to evict it for another page; and
\* when requests wait on p, nobody holds it and a slot can be loaded, the
\* call grants the first of them
C30_Step ==
    \A p \in Pages :
        (ReleaseWaits(p) /\ TableCall /\ Drains) =>
            /\ CountsAreLive(held)'
            /\ Load(held', p) = 0 => Idle(p)' \/ GaveSlotAway(p)
            /\ (Queue(p) # << >> /\ ~ Pinned(p) /\ SlotForLoad)
                    => Load(held', p) > 0 \/ UndeliveredOn(p)' # {}

C30_Queue_Step ==
    \A p \in Pages :
        (ReleaseWaits(p) /\ TableCall /\ Drains /\ Idle(p)')
            => Queue(p)' = << >>

C30_NobodyWaitsOnIdle == [][C30_Queue_Step]_vars

IsContains(p) == ret'.op = "contains_page" /\ ret'.page = p /\ Contains(p)

\* q was in the LRU and the call gave its slot to another page
EvictedNow(q) ==
    /\ LruContains(page_lru, q)
    /\ Resident(q)
    /\ ~ Resident(q)'

\* o comes before q in the LRU: it was used less recently
Before(o, q) ==
    /\ LruContains(page_lru, o)
    /\ LruContains(page_lru, q)
    /\ LruIndexOf(page_lru, o) < LruIndexOf(page_lru, q)

\* contains_page(p) leaves p, when it is in the LRU, as the most recently
\* used entry; and a call evicts a page only when every page before it in
\* the LRU has left the LRU
C31_Step ==
    /\ \A p \in Pages :
          (IsContains(p) /\ LruContains(page_lru', p))
              => Last(page_lru').key = p
    /\ \A q \in Pages :
          EvictedNow(q) => \A o \in Pages : Before(o, q) => o \notin InLru'

\* C31: contains_page(P) on a resident page with zero locks makes P the
\* most recently used entry of the LRU, and pages leave the LRU by eviction
\* from the least recently used end, so P is evicted only after every other
\* page that was idle at that moment.
C31_ContainsRefreshes == [][C31_Step]_vars

\* contains_page answered true on an idle page that was not the most
\* recently released: another idle page now comes before it in the LRU
C31_Witness ==
    /\ ret.op = "contains_page"
    /\ ret.result
    /\ Len(page_lru) >= 2
    /\ Last(page_lru).key = ret.page
    /\ ~ panicked

\* ---------------------------------------------------------------- C32
\* the releases waiting to be received, in the order the next call receives
\* them: check_messages empties the readers' channel first
Releases == reader_rx \o writer_rx

\* the place of the last release of q among those waiting
LastRelease(q) ==
    CHOOSE i \in 1 .. Len(Releases) :
        /\ Releases[i] = q
        /\ \A j \in (i + 1) .. Len(Releases) : Releases[j] # q

\* o is in the LRU before and after the step, q enters it
Stays(o) == o \in InLru /\ o \in InLru'
Enters(q) == q \notin InLru /\ q \in InLru'

\* o comes before q in the LRU after the step
BeforeNext(o, q) ==
    /\ LruContains(page_lru', o)
    /\ LruContains(page_lru', q)
    /\ LruIndexOf(page_lru', o) < LruIndexOf(page_lru', q)

\* the LRU keeps the order of the releases: pages that stay keep their
\* order, pages that enter come after those that stay and in the order
\* their last releases were received, and a call evicts a page only when
\* the pages before it have left; asked(o) excuses the page o
ReleaseOrder(asked(_)) ==
    /\ \A o, q \in Pages :
          (Stays(o) /\ Stays(q) /\ Before(o, q) /\ ~ asked(o))
              => BeforeNext(o, q)
    /\ \A o, q \in Pages :
          (Stays(o) /\ Enters(q) /\ ~ asked(o)) => BeforeNext(o, q)
    /\ \A o, q \in Pages :
          (/\ Enters(o) /\ Enters(q) /\ ~ asked(o)
           /\ o \in Range(Releases) /\ q \in Range(Releases)
           /\ LastRelease(o) < LastRelease(q))
              => BeforeNext(o, q)
    /\ \A q \in Pages :
          EvictedNow(q) => \A o \in Pages : Before(o, q) => o \notin InLru'

NotAsked(o) == FALSE

\* C32 as stated: the LRU is ordered by last release alone, and the page
\* evicted is the one whose last release is the oldest
C32_Original == [][ReleaseOrder(NotAsked)]_vars

\* C32 amended: the LRU is ordered by last use, where a page is used when
\* its last lock release is received and when contains_page is asked about
\* it while it is idle; on a miss with an empty free list the page evicted
\* is the zero-count resident page whose last use is the oldest.
C32_OrderedByLastUse == [][ReleaseOrder(IsContains)]_vars

\* two idle pages, the earlier released one asked about since: it is now
\* the most recently used
C32_Witness ==
    /\ ret.op = "contains_page"
    /\ ret.result
    /\ Len(page_lru) = 2
    /\ Last(page_lru).key = ret.page
    /\ available_slots = << >>
    /\ reader_rx = << >> /\ writer_rx = << >>

\* ---------------------------------------------------------------- C33
\* e groups the sequence with the unary operators binding tightest: the
\* root is a binary operator outside the parentheses of the lowest class
\* there is; without one, a unary operator at the front applies to what
\* the rest groups as; a sequence wholly in parentheses groups as what is
\* inside; a term is itself
RECURSIVE UnaryFirst(_, _)
UnaryFirst(tokens, e) ==
    IF TopOps(tokens) # {}
    THEN /\ e.node = "BinOp"
         /\ \E k \in TopOps(tokens) :
                /\ \A j \in TopOps(tokens) :
                        Class(tokens[j].op) >= Class(tokens[k].op)
                /\ e.op = tokens[k].op
                /\ UnaryFirst(SubSeq(tokens, 1, k - 1), e.kids[1])
                /\ UnaryFirst(SubSeq(tokens, k + 1, Len(tokens)), e.kids[2])
    ELSE IF Head(tokens).tok = "UnOp"
    THEN /\ e.node = "UnOp"
         /\ e.op = Head(tokens).op
         /\ UnaryFirst(Tail(tokens), e.kids[1])
    ELSE IF Head(tokens).tok = "OpenParen"
    THEN UnaryFirst(SubSeq(tokens, 2, Len(tokens) - 1), e)
    ELSE tokens = << Term(e) >>

NotThenAnd ==
    << UnOp("OpNot"), Term(IntLiteral(1)), BinOp("OpAnd"),
       Term(IntLiteral(2)) >>

AndThenNot ==
    << Term(IntLiteral(1)), BinOp("OpAnd"), UnOp("OpNot"),
       Term(IntLiteral(2)) >>

\* C33: prefix unary operators bind tighter than every binary operator in
\* shunting_yard: in the tree of every well-formed sequence a unary
\* operator has its own operand and never a binary expression that was not
\* in parentheses; [NOT, a, AND, b] yields BinOp(AND, UnOp(NOT, a), b) and
\* [a, AND, NOT, b] yields BinOp(AND, a, UnOp(NOT, b)).
C33_UnaryBindsTighter ==
    expr_ret.op = "shunting_yard" =>
        /\ expr_ret.result.ok
        /\ UnaryFirst(expr_ret.tokens, Unwrap(expr_ret.result.value))
        /\ expr_ret.tokens = NotThenAnd =>
                expr_ret.result =
                    Ok(BinOpExpr(UnOpExpr(IntLiteral(1), "OpNot"),
                                 IntLiteral(2), "OpAnd"))
        /\ expr_ret.tokens = AndThenNot =>
                expr_ret.result =
                    Ok(BinOpExpr(IntLiteral(1),
                                 UnOpExpr(IntLiteral(2), "OpNot"), "OpAnd"))

\* shunting_yard was called on [NOT, 1, AND, 2]
C33_Witness ==
    /\ expr_ret.op = "shunting_yard"
    /\ expr_ret.tokens = NotThenAnd
    /\ expr_ret.result.ok

\* ---------------------------------------------------------------- C34
\* the places a slot index can be accounted for
FreeAt(s) == {k \in 1 .. Len(available_slots) : available_slots[k] = s}
LruAt(s) == {k \in 1 .. Len(page_lru) : page_lru[k].value = s}
CountedAt(s) == {p \in Counted : page_map[p] = s}

\* C34: slot conservation: each of the page_count slot indices is in the
\* free list, or the slot of a page in the LRU, or the slot of a page with
\* a positive count, and in one place only, so that
\* |free list| + |LRU| + |pages with a positive count| = page_count.
C34_SlotConservation ==
    /\ \A s \in 0 .. (page_count - 1) :
          Cardinality(FreeAt(s)) + Cardinality(LruAt(s))
              + Cardinality(CountedAt(s)) = 1
    /\ Len(available_slots) + Cardinality(InLru) + Cardinality(Counted)
          = page_count

\* no slot is accounted for twice
C34_NoSlotTwice ==
    \A s \in 0 .. (page_count - 1) :
        Cardinality(FreeAt(s)) + Cardinality(LruAt(s))
            + Cardinality(CountedAt(s)) <= 1

\* ---------------------------------------------------------------- C35
\* C35: counters track live locks: for every page and kind the counter is
\* the number of locks of that kind alive plus the number of their releases
\* not received yet, hence at least the number of locks alive and equal to
\* it when both channels are drained; a dropped lock is counted on the
\* channel of its own kind until the decrement; and no decrement finds a
\* counter at zero.
C35_CountersTrackLocks ==
    /\ \A p \in Pages :
          /\ CountsOf(p)
          /\ active(reader_count, p) >= LiveCount(held, p, "Read")
          /\ active(writer_count, p) >= LiveCount(held, p, "Write")
          /\ Drained =>
                /\ active(reader_count, p) = LiveCount(held, p, "Read")
                /\ active(writer_count, p) = LiveCount(held, p, "Write")
    /\ ~ panicked

\* a write lock was dropped and is still counted, while a read lock on
\* another page is alive
C35_Witness ==
    \E p, q \in Pages :
        /\ active(writer_count, p) = 1
        /\ LiveCount(held, p, "Write") = 0
        /\ p \in Range(writer_rx)
        /\ LiveCount(held, q, "Read") = 1

\* ---------------------------------------------------------------- C36
\* the locks a call sent for page p, in the order it sent them, as the
\* requests they answer
Answered(st, p) ==
    LET sent == SelectSeq(st.out, LAMBDA l : l.page_id = p)
    IN  [k \in 1 .. Len(sent) |->
            [lock_type |-> sent[k].lock_type, channel |-> sent[k].reply]]

QueueIn(st, p) ==
    IF p \in DOMAIN st.pending_requests THEN st.pending_requests[p] ELSE << >>

\* after a call that found the requests q made on p and not granted yet:
\* the call sent one lock for each of some first requests of q, in their
\* order, and the others are the queue of p, in their order
Conserved(st, p, q) ==
    /\ ~ st.panicked
    /\ Answered(st, p) \o QueueIn(st, p) = q

AllChannels == Channels \cup {ClosedChannel}

\* C36: requests are neither lost nor duplicated: whatever call of the
\* table is made in a reachable state, every request waiting on a page,
\* and the request the call makes, is afterwards either still in the
\* queue of its page, in its original relative order, or was granted by
\* exactly one lock sent on its reply channel.
C36_RequestsConserved ==
    /\ \A p \in Pages : Conserved(tick(Self), p, Queue(p))
    /\ \A id \in Pages :
          \A p \in Pages : Conserved(contains_page(Self, id).st, p, Queue(p))
    /\ \A page_id \in Pages, lock_type \in LockTypes, ch \in AllChannels :
          \A p \in Pages :
              Conserved(request_lock(Self, page_id, lock_type, ch), p,
                        IF p = page_id
                        THEN Append(Queue(p), [lock_type |-> lock_type,
                                               channel |-> ch])
                        ELSE Queue(p))

\* two requests wait on a page; the call that receives the waiting release
\* takes the queue out of the map, grants the first and puts the second
\* back
C36_Witness ==
    \E p \in Pages :
        /\ Len(Queue(p)) = 2
        /\ Len(Answered(tick(Self), p)) = 1
        /\ QueueIn(tick(Self), p) = Tail(Queue(p))
\* ---------------------------------------------------------------- C37
\* the calls that both tables answered
AskedBoth == ret.op \in {"page_index", "contains_page"} /\ Len(ret.result) = 2

\* the locks the cell-based table counts on page p
CellLocks(p) == active(cell.ref_count, p)

\* the pages the cell-based table would evict, oldest first
CellOrder == [i \in DOMAIN cell.page_lru |-> cell.page_lru[i].key]

\* the same for the channel-based table once it is drained
DrainedOrder ==
    [i \in DOMAIN tick(Self).page_lru |-> tick(Self).page_lru[i].key]

\* C37: with the channel-based table ticked before each call, the two
\* tables give the same slot index for every load, None for the same loads
\* and the same answer to every contains_page; neither panics, and once the
\* channel-based table is drained both would evict the same pages in the
\* same order and have the same slots free.
C37_VariantsAgree ==
    /\ ~ panicked
    /\ ~ cell.panicked
    /\ AskedBoth => ret.result[1] = ret.result[2]
    /\ DrainedOrder = CellOrder
    /\ tick(Self).available_slots = cell.available_slots

\* a load that both tables answered with the slot of a page they evicted
\* for it
C37_Witness ==
    /\ ret.op = "page_index"
    /\ Len(ret.result) = 2
    /\ IsSome(ret.result[2])
    /\ ret.result[1] = ret.result[2]
    /\ cell.available_slots = << >>
    /\ \E p \in Pages :
          /\ p \in DOMAIN cell.page_map
          /\ CellLocks(p) = 0
          /\ ~ LruContains(cell.page_lru, p)
          /\ cell.page_map[p] = Unwrap(ret.result[2])
          /\ p # ret.page

\* ---------------------------------------------------------------- C38
\* the stacks after the first k tokens, and after the loop that follows the
\* last token
StacksAfter(tokens, k) ==
    ShuntTokens(Stacks(<< >>, << >>, FALSE), SubSeq(tokens, 1, k))
StacksAtEnd(tokens) == Drain(StacksAfter(tokens, Len(tokens)))

\* the OpenParens on a stack of operators
OpenOn(op_stack) ==
    Cardinality({ i \in DOMAIN op_stack : op_stack[i].tok = "OpenParen" })

\* the parentheses that are open after the first k tokens
OpenAfter(tokens, k) ==
    Cardinality({ j \in 1 .. k : tokens[j].tok = "OpenParen" })
        - Cardinality({ j \in 1 .. k : tokens[j].tok = "CloseParen" })

\* the operators of an expression
RECURSIVE OperatorsOf(_)
OperatorsOf(e) ==
    IF e.kids = << >> THEN 0
    ELSE IF Len(e.kids) = 1 THEN 1 + OperatorsOf(e.kids[1])
    ELSE 1 + OperatorsOf(e.kids[1]) + OperatorsOf(e.kids[2])

OperatorTokens(tokens) ==
    Cardinality({ j \in DOMAIN tokens : tokens[j].tok \in {"UnOp", "BinOp"} })

\* C38: on every well-formed token sequence shunting_yard returns: no
\* unwrap meets an empty expression stack and complete_expr never gets an
\* OpenParen or nothing, after any number of tokens; the OpenParens on the
\* operator stack are the parentheses still open, so none is left when the
\* tokens end; after the last loop the operator stack is empty and the
\* expression stack has exactly one expression, which is what is returned
\* and which has every operator of the input once.
C38_StackDiscipline ==
    expr_ret.op = "shunting_yard" =>
        LET tokens == expr_ret.tokens
            end == StacksAtEnd(tokens)
        IN  /\ ~ expr_ret.panic
            /\ \A k \in 0 .. Len(tokens) :
                  /\ ~ StacksAfter(tokens, k).panic
                  /\ OpenOn(StacksAfter(tokens, k).op_stack)
                        = OpenAfter(tokens, k)
            /\ ~ end.panic
            /\ end.op_stack = << >>
            /\ Len(end.expr_stack) = 1
            /\ expr_ret.result = Ok(end.expr_stack[1])
            /\ OperatorsOf(end.expr_stack[1]) = OperatorTokens(tokens)

\* shunting_yard has returned for a sequence with a unary operator,
\* parentheses and a binary operator
C38_Witness ==
    /\ expr_ret.op = "shunting_yard"
    /\ expr_ret.result.ok
    /\ \E j \in DOMAIN expr_ret.tokens : expr_ret.tokens[j].tok = "CloseParen"
    /\ \E j \in DOMAIN expr_ret.tokens : expr_ret.tokens[j].tok = "UnOp"
    /\ \E j \in DOMAIN expr_ret.tokens : expr_ret.tokens[j].tok = "BinOp"
    /\ Len(StacksAtEnd(expr_ret.tokens).expr_stack) = 1

====
